---- MODULE Spec2Model ----
(***************************************************************************)
(* Streaming orchestration core of surf: the free-text JSON adapter        *)
(* (OpenAICompatibleComputerStreamer.stream) and the tool-calling adapter  *)
(* (AISDKComputerStreamer.stream / streamWithToolCalling), as state        *)
(* machines over the suspension points of their async generators.          *)
(***************************************************************************)
EXTENDS Integers, Sequences, FiniteSets, TLC

VARIABLES
    adapter,        \* which streamer this session runs: "json" or "tool"
    pc,             \* position of the generator (its current suspension point)
    aborted,        \* signal.aborted
    out,            \* what the consumer has received so far (see NoOutput)
    iteration,      \* json: let iteration
    curAction,      \* json: action.type of the action being executed, or "none"
    leftBy,         \* json: how the while loop was left: "abort", "done", "condition"
    modelCalls,     \* number of model calls started (completions.create / streamText)
    screenshots,    \* number of takeScreenshot() calls that have returned
    failure,        \* which call has thrown inside the generator, or "none"
    lateAction,     \* an ACTION event was yielded while signal.aborted was already set
    providerConfig, \* tool: this.providerConfig
    variant,        \* tool: which revision of the chunk translation is running
    instances,      \* tool: number of provider instances created
    chunk,          \* tool: the chunk the for-await loop is holding
    sdk,            \* tool: phase of the streamText run behind result.fullStream
    stepCount,      \* tool: steps the streamText run has started
    callInStep,     \* tool: the current step has proposed its tool call
    pendingCall,    \* tool: a tool call is proposed and its execution has not finished
    errorChunks,    \* tool: error parts the model stream has delivered
    executor,       \* which action executor is invoked, or "none" inside a session model
    params,         \* executor: the action handed to the executor
    calls,          \* executor: calls made on the desktop and the resolution scaler, in order
    outcome,        \* executor: the value the executor returned
    epc,            \* executor: "idle", "ready", "returned", or "escaped" (an exception left it)
    inbound,        \* the messages argument of stream(): the conversation the request carries
    history,        \* the conversation handed to the model (chatMessages / formattedMessages)
    route,          \* the chat route handling the request: the sandbox ids and its position
    messages,       \* chat client: the message list (useState)
    isLoading,      \* chat client: the isLoading flag (useState)
    error,          \* chat client: the error text (useState), "null" when cleared
    abortControllerRef, \* chat client: the request whose AbortController the ref holds, 0 for null
    requests,       \* chat client: the invocations of sendMessage that got past the guard
    body,           \* decoding: the text of the response body the reader has not delivered yet
    buffer,         \* decoding: let buffer
    processed,      \* decoding: the events that reached the switch, in order
    sentEvents,     \* decoding: the events the server encoded into the body
    providers,      \* provider store: localStorage[STORAGE_KEY], the stored configurations
    activeProviderId, \* provider store: localStorage[ACTIVE_PROVIDER_KEY], "null" when absent
    returned,       \* provider store: the last store call and what it returned
    generated       \* provider store: how many ids generateId has given out

sessionVars == <<adapter, aborted, out, modelCalls, screenshots, failure, lateAction>>
jsonVars == <<iteration, curAction, leftBy>>
sdkVars == <<sdk, stepCount, callInStep, pendingCall, errorChunks>>
toolVars == <<providerConfig, variant, instances, chunk, sdkVars>>
execVars == <<executor, params, calls, outcome, epc>>
histVars == <<inbound, history>>
clientVars == <<messages, isLoading, error, abortControllerRef, requests>>
decodeVars == <<body, buffer, processed, sentEvents>>
storeVars == <<providers, activeProviderId, returned, generated>>
frontVars == <<clientVars, decodeVars, storeVars>>
vars == <<pc, sessionVars, jsonVars, toolVars, execVars, histVars, route, frontVars>>

(***************************************************************************)
(* Bounds of the model (not program constants).                            *)
(***************************************************************************)
\* how many of the most recent events the consumer-side log keeps
RecentLen == 2

(***************************************************************************)
(* Program constants.                                                      *)
(***************************************************************************)
maxIterations == 50

(***************************************************************************)
(* Events (SSEEvent).  The content of an event is kept as a tag naming     *)
(* the message the code puts there.                                        *)
(***************************************************************************)
Ev(t, c) == [type |-> t, content |-> c]

StopMessage == "Generation stopped by user"
LimitMessage == "Maximum number of iterations reached."

DoneEv == Ev("DONE", "none")
StoppedEv == Ev("DONE", StopMessage)
ActionEv == Ev("ACTION", "none")
CompletedEv == Ev("ACTION_COMPLETED", "none")

\* The consumer's view of the event sequence: counters per event type, the
\* last RecentLen events, whether anything followed a DONE, whether an
\* ACTION is still waiting for its ACTION_COMPLETED / ERROR, and whether the
\* pairing of ACTION with ACTION_COMPLETED / ERROR was ever broken (an
\* ACTION while another is waiting, an ACTION_COMPLETED while none is).
\* batch holds the events of the latest run of yields between two awaits.
NoOutput ==
    [ nDone |-> 0, nError |-> 0, nAction |-> 0,
      recent |-> << >>, afterDone |-> FALSE, open |-> FALSE, misordered |-> FALSE,
      batch |-> << >> ]

KeepRecent(s) ==
    IF Len(s) > RecentLen THEN SubSeq(s, Len(s) - RecentLen + 1, Len(s)) ELSE s

Receive(o, e) ==
    [ nDone      |-> o.nDone + (IF e.type = "DONE" THEN 1 ELSE 0),
      nError     |-> o.nError + (IF e.type = "ERROR" THEN 1 ELSE 0),
      nAction    |-> o.nAction + (IF e.type = "ACTION" THEN 1 ELSE 0),
      recent     |-> KeepRecent(Append(o.recent, e)),
      afterDone  |-> o.afterDone \/ o.nDone > 0,
      open       |-> CASE e.type = "ACTION" -> TRUE
                       [] e.type \in {"ACTION_COMPLETED", "ERROR"} -> FALSE
                       [] OTHER -> o.open,
      misordered |-> \/ o.misordered
                     \/ e.type = "ACTION" /\ o.open
                     \/ e.type = "ACTION_COMPLETED" /\ ~o.open,
      batch      |-> o.batch ]

RECURSIVE ReceiveAll(_, _)
ReceiveAll(o, evs) ==
    IF evs = << >> THEN o ELSE ReceiveAll(Receive(o, Head(evs)), Tail(evs))

\* the view after one run of yields
Received(o, evs) == [ReceiveAll(o, evs) EXCEPT !.batch = evs]

\* yield e1; yield e2; ... handed to the consumer in this order
Yield(evs) ==
    /\ out' = Received(out, evs)
    /\ lateAction' = (lateAction \/ (aborted /\ \E i \in 1..Len(evs) : evs[i].type = "ACTION"))

LastOf(o) == IF o.recent = << >> THEN Ev("none", "none") ELSE o.recent[Len(o.recent)]

LastEvent == LastOf(out)

(***************************************************************************)
(* The cancellation signal: the caller may set it at any moment while the  *)
(* generator is alive.                                                      *)
(***************************************************************************)
\* the check of the signal left out
CancellationIgnored == FALSE

\* if (signal.aborted)
CancellationObserved == aborted

Abort ==
    /\ ~aborted
    /\ pc # "end"
    /\ aborted' = TRUE
    /\ UNCHANGED <<adapter, pc, out, modelCalls, screenshots, failure, lateAction>>
    /\ UNCHANGED <<jsonVars, toolVars, execVars>>
    /\ UNCHANGED histVars
    /\ UNCHANGED <<route, frontVars>>

\* the session models invoke no executor of their own
IdleExecutor ==
    /\ executor = "none"
    /\ params = [action |-> "none"]
    /\ calls = << >>
    /\ outcome = [success |-> FALSE, screenshot |-> FALSE, error |-> "null"]
    /\ epc = "idle"

\* a field the request body or the route has not set
Absent == "undefined"

\* a session that is not behind the chat route
NoRoute == [sandboxId |-> Absent, activeSandboxId |-> Absent, vncUrl |-> Absent,
            state |-> "none"]

\* the chat client before the first sendMessage
IdleClient ==
    /\ messages = << >>
    /\ isLoading = FALSE
    /\ error = "null"
    /\ abortControllerRef = 0
    /\ requests = << >>

\* no response body is being decoded
IdleDecoder ==
    /\ body = ""
    /\ buffer = ""
    /\ processed = << >>
    /\ sentEvents = << >>

\* an empty localStorage
IdleStore ==
    /\ providers = << >>
    /\ activeProviderId = 0
    /\ returned = [call |-> "none", value |-> 0]
    /\ generated = 0

IdleFront == IdleClient /\ IdleDecoder /\ IdleStore

NoChunk == [type |-> "none", ok |-> FALSE]
NoConfig == [type |-> "none", model |-> "", apiKey |-> "", baseUrl |-> "", useNativeComputerUse |-> FALSE]

(***************************************************************************)
(* Conversation history.  A message is its role, a tag for its text, the   *)
(* number of the screenshot it carries (0: none) and, for a message of the *)
(* request, its position in the request (0: built by the adapter).         *)
(* The history keeps the messages it was seeded with, the number of        *)
(* messages pushed since, and the messages of the latest push.             *)
(***************************************************************************)
\* longest conversation a request carries in the history model
MaxInbound == 3

\* MessageRole of types/chat, and the tool role of provider SDK messages
Roles == {"user", "assistant", "system", "action", "tool"}

Message(role, text, image, from) ==
    [role |-> role, text |-> text, image |-> image, from |-> from]

Conversation(roles) ==
    [i \in 1..Len(roles) |-> Message(roles[i], "request", 0, i)]

Inbounds == { Conversation(roles) : roles \in UNION { [1..n -> Roles] : n \in 0..MaxInbound } }

\* the request of the session models: one user message
SingleRequest == Conversation(<<"user">>)

NoHistory == [seed |-> << >>, appended |-> 0, last |-> << >>]

Seeded(msgs) == [seed |-> msgs, appended |-> 0, last |-> << >>]

Push(h, msgs) ==
    [seed |-> h.seed, appended |-> h.appended + Len(msgs), last |-> msgs]

HistorySize(h) == Len(h.seed) + h.appended

\* messages.concat(userMessage).filter(...).map(...) of the chat client
apiMessages(msgs) == SelectSeq(msgs, LAMBDA m : m.role \in {"user", "assistant"})

\* every message of the request copied
JsonCopyAll(msgs) == msgs

\* for (const msg of messages) of the JSON adapter
JsonCopied(msgs) == SelectSeq(msgs, LAMBDA m : m.role = "user" \/ m.role = "assistant")

\* chatMessages[lastUserIdx] = {...} when the last message is a user message
ReplaceLastUser(msgs, shot) ==
    IF Len(msgs) > 0 /\ msgs[Len(msgs)].role = "user"
    THEN [msgs EXCEPT ![Len(msgs)] = Message("user", @.text, shot, @.from)]
    ELSE msgs

\* chatMessages before the loop
chatMessages(msgs, shot) ==
    ReplaceLastUser(<<Message("system", "instructions", 0, 0)>> \o JsonCopied(msgs), shot)

\* the reply kept and no corrective prompt pushed
ReplyOnly == <<Message("assistant", "reply", 0, 0)>>

\* the two pushes after a reply that JSON.parse rejects
CorrectiveTurn ==
    <<Message("assistant", "reply", 0, 0), Message("user", "corrective prompt", 0, 0)>>

\* the user turn built from the screenshot taken before the action
StaleObservationTurn(shot) ==
    <<Message("assistant", "reply", 0, 0), Message("user", "screenshot after action", shot - 1, 0)>>

\* the two pushes after an executed action
ObservationTurn(shot) ==
    <<Message("assistant", "reply", 0, 0), Message("user", "screenshot after action", shot, 0)>>

\* what a streamText run adds to its messages after a step that called a tool
StepResponse ==
    <<Message("assistant", "tool-call", 0, 0), Message("tool", "tool-result", 0, 0)>>

\* the screenshot turn left out
formattedMessagesNoScreenshot(msgs, shot) ==
    SelectSeq(msgs, LAMBDA m : m.role = "user" \/ m.role = "assistant")

\* formattedMessages of AISDKComputerStreamer.stream
formattedMessages(msgs, shot) ==
    <<Message("user", "desktop state", shot, 0)>>
        \o SelectSeq(msgs, LAMBDA m : m.role = "user" \/ m.role = "assistant")

(***************************************************************************)
(* Free-text JSON adapter: OpenAICompatibleComputerStreamer.stream          *)
(***************************************************************************)
\* action.type values a model reply may carry: one that drives the desktop,
\* one that does not, and one outside the vocabulary
JsonActionTypes == {"click", "wait", "unknown"}

\* executeAction issues a desktop call (which may throw) only for these
DeviceActions == {"click"}

\* What completions.create may come back with.
\*   api_error  : the call throws
\*   no_choices : a body without a choices array
\*   unparsable : text that JSON.parse rejects
\*   json       : text that parses; reasoning / action as given
ModelReplies ==
    { [kind |-> k, reasoning |-> FALSE, action |-> "none"] :
          k \in {"api_error", "no_choices", "unparsable"} }
    \cup
    { [kind |-> "json", reasoning |-> r, action |-> a] :
          r \in BOOLEAN, a \in {"none", "done"} \cup JsonActionTypes }

ApiErrorEv == Ev("ERROR", "API error")
ServiceErrorEv == Ev("ERROR", "An error occurred with the AI service")

\* no catch: the exception leaves the generator
JsonRethrow(what) ==
    /\ failure' = what
    /\ pc' = "thrown"
    /\ UNCHANGED <<out, lateAction>>

\* catch (error) of stream(): one ERROR event, then the generator completes
JsonCatch(what) ==
    /\ Yield(<<ServiceErrorEv>>)
    /\ failure' = what
    /\ pc' = "end"

\* takeScreenshot() before the loop; on success the history is built
JsonInitialScreenshot ==
    /\ adapter = "json"
    /\ pc = "init"
    /\ \/ /\ pc' = "loop"
          /\ screenshots' = screenshots + 1
          /\ history' = Seeded(chatMessages(inbound, screenshots'))
          /\ UNCHANGED <<out, failure, lateAction>>
       \/ /\ JsonCatch("screenshot")
          /\ UNCHANGED <<screenshots, history>>
    /\ UNCHANGED <<adapter, aborted, jsonVars, modelCalls, toolVars, execVars>>
    /\ UNCHANGED inbound
    /\ UNCHANGED <<route, frontVars>>

\* the cap tested with <= instead of <
LoopConditionOffByOne(i) == i <= maxIterations

LoopCondition(i) == i < maxIterations

\* while (iteration < maxIterations) { if (signal.aborted) {...break}
\*   iteration++; response = await create(...)
JsonLoopHead ==
    /\ adapter = "json"
    /\ pc = "loop"
    /\ IF LoopCondition(iteration)
       THEN IF CancellationObserved
            THEN /\ Yield(<<StoppedEv>>)
                 /\ pc' = "afterLoop"
                 /\ leftBy' = "abort"
                 /\ UNCHANGED <<iteration, modelCalls>>
            ELSE /\ iteration' = iteration + 1
                 /\ modelCalls' = modelCalls + 1
                 /\ pc' = "model"
                 /\ UNCHANGED <<out, lateAction, leftBy>>
       ELSE /\ pc' = "afterLoop"
            /\ leftBy' = "condition"
            /\ UNCHANGED <<out, lateAction, iteration, modelCalls>>
    /\ UNCHANGED <<adapter, aborted, curAction, failure, screenshots, toolVars, execVars>>
    /\ UNCHANGED histVars
    /\ UNCHANGED <<route, frontVars>>

\* the failed call reported and the loop taken again
JsonApiErrorRetried ==
    /\ Yield(<<ApiErrorEv>>)
    /\ failure' = "model"
    /\ pc' = "loop"

\* catch (apiError): yield ERROR; yield DONE; return
JsonApiError ==
    /\ Yield(<<ApiErrorEv, DoneEv>>)
    /\ failure' = "model"
    /\ pc' = "end"

\* the events of a reply that parsed
ReasoningOf(reply) ==
    IF reply.reasoning THEN <<Ev("REASONING", "reasoning")>> ELSE << >>

JustificationOf(reply) ==
    Ev("REASONING", IF reply.reasoning THEN "reasoning" ELSE "raw")

\* the await of completions.create resolves or rejects, and the reply is
\* handled up to the next suspension point
JsonModelReply ==
    /\ adapter = "json"
    /\ pc = "model"
    /\ \E reply \in ModelReplies :
         CASE reply.kind = "api_error" ->
                /\ JsonApiError
                /\ UNCHANGED <<curAction, leftBy, history>>
           [] reply.kind = "no_choices" ->
                /\ JsonCatch("reply")
                /\ UNCHANGED <<curAction, leftBy, history>>
           [] reply.kind = "unparsable" ->
                /\ Yield(<<Ev("REASONING", "raw")>>)
                /\ history' = Push(history, CorrectiveTurn)
                /\ pc' = "loop"
                /\ UNCHANGED <<curAction, failure, leftBy>>
           [] reply.kind = "json" /\ reply.action \in {"none", "done"} ->
                /\ Yield(ReasoningOf(reply) \o <<JustificationOf(reply), DoneEv>>)
                /\ pc' = "afterLoop"
                /\ leftBy' = "done"
                /\ UNCHANGED <<curAction, failure, history>>
           [] OTHER ->
                /\ Yield(ReasoningOf(reply) \o <<ActionEv>>)
                /\ curAction' = reply.action
                /\ pc' = "exec"
                /\ UNCHANGED <<failure, leftBy, history>>
    /\ UNCHANGED <<adapter, aborted, iteration, modelCalls, screenshots, toolVars, execVars>>
    /\ UNCHANGED inbound
    /\ UNCHANGED <<route, frontVars>>

\* await this.executeAction(action); yield ACTION_COMPLETED
JsonExecuteAction ==
    /\ adapter = "json"
    /\ pc = "exec"
    /\ \/ /\ Yield(<<CompletedEv>>)
          /\ pc' = "shot"
          /\ UNCHANGED failure
       \/ /\ curAction \in DeviceActions
          /\ JsonCatch("exec")
    /\ curAction' = "none"
    /\ UNCHANGED <<adapter, aborted, iteration, leftBy, modelCalls, screenshots, toolVars, execVars>>
    /\ UNCHANGED histVars
    /\ UNCHANGED <<route, frontVars>>

\* await takeScreenshot(); push the reply and the new screenshot; loop
JsonNewScreenshot ==
    /\ adapter = "json"
    /\ pc = "shot"
    /\ \/ /\ pc' = "loop"
          /\ screenshots' = screenshots + 1
          /\ history' = Push(history, ObservationTurn(screenshots'))
          /\ UNCHANGED <<out, failure, lateAction>>
       \/ /\ JsonCatch("screenshot")
          /\ UNCHANGED <<screenshots, history>>
    /\ UNCHANGED <<adapter, aborted, jsonVars, modelCalls, toolVars, execVars>>
    /\ UNCHANGED inbound
    /\ UNCHANGED <<route, frontVars>>

\* if (iteration >= maxIterations) { yield REASONING; yield DONE }
JsonAfterLoop ==
    /\ adapter = "json"
    /\ pc = "afterLoop"
    /\ IF iteration >= maxIterations
       THEN Yield(<<Ev("REASONING", LimitMessage), DoneEv>>)
       ELSE UNCHANGED <<out, lateAction>>
    /\ pc' = "end"
    /\ UNCHANGED <<adapter, aborted, jsonVars, modelCalls, failure, screenshots, toolVars, execVars>>
    /\ UNCHANGED histVars
    /\ UNCHANGED <<route, frontVars>>

JsonNext ==
    \/ JsonInitialScreenshot
    \/ JsonLoopHead
    \/ JsonModelReply
    \/ JsonExecuteAction
    \/ JsonNewScreenshot
    \/ JsonAfterLoop

\* a session before the generator's first resumption
InitSession ==
    /\ aborted = FALSE
    /\ out = NoOutput
    /\ modelCalls = 0
    /\ screenshots = 0
    /\ failure = "none"
    /\ lateAction = FALSE
    /\ iteration = 0
    /\ curAction = "none"
    /\ leftBy = "none"
    /\ instances = 0
    /\ chunk = NoChunk
    /\ sdk = "idle"
    /\ stepCount = 0
    /\ callInStep = FALSE
    /\ pendingCall = FALSE
    /\ errorChunks = 0
    /\ history = NoHistory

InitJson ==
    /\ adapter = "json"
    /\ pc = "init"
    /\ providerConfig = NoConfig
    /\ variant = "none"
    /\ inbound = SingleRequest
    /\ InitSession
    /\ route = NoRoute
    /\ IdleFront
    /\ IdleExecutor

(***************************************************************************)
(* Provider configuration (lib/providers)                                  *)
(***************************************************************************)
NULL == "null"

\* vendor types a request may carry: a plain built-in vendor, one with a
\* native computer-use protocol, the custom endpoint, and a type outside
\* the ProviderType union (the HTTP layer casts the body unchecked)
ProviderTypes == {"google", "openai", "custom", "azure"}

ModelIds == {"", "computer-use-preview"}

\* baseUrl is a field of custom providers only
Configs ==
    { c \in [ type : ProviderTypes, model : ModelIds, apiKey : {"", "sk-1"},
              baseUrl : {"", "http://host/v1"}, useNativeComputerUse : BOOLEAN ] :
          c.type # "custom" => c.baseUrl = "" }

providerRequiresApiKey(type) == type \notin {"custom", "ollama"}

\* validation without its model rule
validateProviderConfigNoModelRule(config) ==
    IF config.type = "custom" /\ config.baseUrl = ""
    THEN "Base URL is required for custom providers"
    ELSE IF providerRequiresApiKey(config.type) /\ config.apiKey = ""
         THEN "API key is required for provider"
    ELSE NULL

validateProviderConfig(config) ==
    IF config.model = "" THEN "Model is required for provider"
    ELSE IF config.type = "custom" /\ config.baseUrl = ""
         THEN "Base URL is required for custom providers"
    ELSE IF providerRequiresApiKey(config.type) /\ config.apiKey = ""
         THEN "API key is required for provider"
    ELSE NULL

\* providerRequiresApiKey and validateProviderConfig as the other revision
\* of the provider types has them
providerRequiresApiKeyUnlessCustom(type) == type # "custom"

validateProviderConfigUnlessCustom(config) ==
    IF config.model = "" THEN "Model is required for provider"
    ELSE IF config.type = "custom" /\ config.baseUrl = ""
         THEN "Base URL is required for custom providers"
    ELSE IF providerRequiresApiKeyUnlessCustom(config.type) /\ config.apiKey = ""
         THEN "API key is required for provider"
    ELSE NULL

\* createProviderInstance: NULL when an instance is returned, else the
\* message of the Error it throws
createProviderInstance(config) ==
    IF config.type \in {"openai", "anthropic", "google", "groq", "mistral", "xai",
                        "openrouter", "huggingface", "ollama"}
    THEN NULL
    ELSE IF config.type = "custom"
         THEN IF config.baseUrl = "" THEN "Base URL is required for custom providers" ELSE NULL
    ELSE "Unknown provider type"

NATIVE_COMPUTER_USE_MODELS ==
    { "computer-use-preview", "claude-3-5-sonnet", "claude-3-6-sonnet",
      "claude-3-7-sonnet", "claude-sonnet-4" }

UpperCaseLetters ==
    << "A", "B", "C", "D", "E", "F", "G", "H", "I", "J", "K", "L", "M",
       "N", "O", "P", "Q", "R", "S", "T", "U", "V", "W", "X", "Y", "Z" >>

LowerCaseLetters ==
    << "a", "b", "c", "d", "e", "f", "g", "h", "i", "j", "k", "l", "m",
       "n", "o", "p", "q", "r", "s", "t", "u", "v", "w", "x", "y", "z" >>

toLowerCaseLetter(c) ==
    IF \E i \in 1..26 : UpperCaseLetters[i] = c
    THEN LowerCaseLetters[CHOOSE i \in 1..26 : UpperCaseLetters[i] = c]
    ELSE c

\* String.prototype.toLowerCase
RECURSIVE toLowerCase(_)
toLowerCase(s) ==
    IF Len(s) = 0 THEN ""
    ELSE toLowerCaseLetter(SubSeq(s, 1, 1)) \o toLowerCase(SubSeq(s, 2, Len(s)))

\* String.prototype.includes
includes(s, m) ==
    \E i \in 1..(Len(s) - Len(m) + 1) : SubSeq(s, i, i + Len(m) - 1) = m

supportsNativeComputerUse(modelId) ==
    \E m \in NATIVE_COMPUTER_USE_MODELS : includes(toLowerCase(modelId), toLowerCase(m))

BuiltinHasNativeComputerUse(type) == type \in {"openai", "anthropic"}

\* the capabilities of the vendor alone, whatever the model
BaseCapabilitiesOnly(type, modelId) ==
    IF type = "custom"
    THEN IF modelId # "" THEN supportsNativeComputerUse(modelId) ELSE FALSE
    ELSE BuiltinHasNativeComputerUse(type)

\* getProviderCapabilities(type, modelId).hasNativeComputerUse
hasNativeComputerUse(type, modelId) ==
    IF type = "custom"
    THEN IF modelId # "" THEN supportsNativeComputerUse(modelId) ELSE FALSE
    ELSE IF modelId # "" /\ ~supportsNativeComputerUse(modelId)
         THEN FALSE
         ELSE BuiltinHasNativeComputerUse(type)

(***************************************************************************)
(* The streamText run behind result.fullStream.  A run is a sequence of    *)
(* steps; a step delivers text and tool calls, the results of its tool     *)
(* calls, and a finish-step part; the run goes on to another step while    *)
(* the step proposed a tool call and stopWhen (stepCountIs) does not hold, *)
(* and ends with a finish part.  A failed model call delivers an error     *)
(* part and closes the stream without a finish part.                       *)
(***************************************************************************)
\* error parts a model stream may carry without closing
MaxErrorChunks == 1

MaxSteps == 50

\* a budget that stops one step late
stepCountIsOffByOne(n) == n > MaxSteps

\* stopWhen: stepCountIs(50)
stepCountIs(n) == n >= MaxSteps

Chunk(t, ok) == [type |-> t, ok |-> ok]

When(cond, set) == IF cond THEN set ELSE {}

\* the chunks the stream can deliver next; a step carries at most one tool
\* call; ok of a tool-result is output.success, ok of an error part says
\* whether the stream stays open after it
NextChunks ==
    IF sdk = "step"
    THEN { Chunk("text-delta", TRUE), Chunk("error", FALSE) }
         \cup When(~callInStep, { Chunk("tool-call", TRUE) })
         \cup When(pendingCall, { Chunk("tool-result", TRUE), Chunk("tool-result", FALSE),
                                  Chunk("tool-error", FALSE) })
         \cup When(errorChunks < MaxErrorChunks, { Chunk("error", TRUE) })
         \cup When(~pendingCall, { Chunk("finish-step", TRUE) })
    ELSE IF sdk = "finishing" THEN { Chunk("finish", TRUE) }
    ELSE {}

\* after chunk c the run goes on to another step, whose model call gets
\* the messages of the run so far
StartsStep(c) == c.type = "finish-step" /\ callInStep /\ ~stepCountIs(stepCount)

\* the run after delivering chunk c
Deliver(c) ==
    CASE c.type = "tool-call" ->
           /\ callInStep' = TRUE
           /\ pendingCall' = TRUE
           /\ UNCHANGED <<sdk, stepCount, errorChunks>>
      [] c.type \in {"tool-result", "tool-error"} ->
           /\ pendingCall' = FALSE
           /\ UNCHANGED <<sdk, stepCount, callInStep, errorChunks>>
      [] c.type = "error" ->
           /\ errorChunks' = errorChunks + 1
           /\ sdk' = IF c.ok THEN sdk ELSE "closed"
           /\ UNCHANGED <<stepCount, callInStep, pendingCall>>
      [] c.type = "finish-step" ->
           /\ IF StartsStep(c)
              THEN /\ stepCount' = stepCount + 1
                   /\ callInStep' = FALSE
                   /\ UNCHANGED sdk
              ELSE /\ sdk' = "finishing"
                   /\ UNCHANGED <<stepCount, callInStep>>
           /\ UNCHANGED <<pendingCall, errorChunks>>
      [] c.type = "finish" ->
           /\ sdk' = "closed"
           /\ UNCHANGED <<stepCount, callInStep, pendingCall, errorChunks>>
      [] OTHER -> UNCHANGED sdkVars

(***************************************************************************)
(* Tool-calling adapter: AISDKComputerStreamer                             *)
(***************************************************************************)
ProviderErrorEv == Ev("ERROR", "provider error")

\* the switch without a DONE for the finish part
InlineEventsNoDone(c) ==
    CASE c.type = "text-delta" -> <<Ev("REASONING", "text")>>
      [] c.type = "tool-call" -> <<ActionEv, CompletedEv>>
      [] c.type = "error" -> <<ProviderErrorEv>>
      [] OTHER -> << >>

\* the switch (chunk.type) of streamWithToolCalling
InlineEvents(c) ==
    CASE c.type = "text-delta" -> <<Ev("REASONING", "text")>>
      [] c.type = "tool-call" -> <<ActionEv, CompletedEv>>
      [] c.type = "tool-result" -> << >>
      [] c.type = "error" -> <<ProviderErrorEv>>
      [] c.type = "finish" -> <<DoneEv>>
      [] OTHER -> << >>

\* ToolLoopSSEAdapter.mapChunkToSSE; a tool-result chunk of streamText
\* carries output only, never isError or error
mapChunkToSSE(c) ==
    CASE c.type = "text-delta" -> <<Ev("REASONING", "text")>>
      [] c.type = "tool-call" -> <<ActionEv>>
      [] c.type = "tool-result" -> <<CompletedEv>>
      [] c.type = "error" -> <<ProviderErrorEv>>
      [] c.type = "finish" -> <<DoneEv>>
      [] OTHER -> << >>

Translate(c) == IF variant = "inline" THEN InlineEvents(c) ELSE mapChunkToSSE(c)

\* catch (error) of AISDKComputerStreamer.stream
ToolCatch(what, message) ==
    /\ Yield(<<Ev("ERROR", message)>>)
    /\ failure' = what
    /\ pc' = "end"

\* stream() up to its first await: validation, createProviderInstance
ToolStart ==
    /\ adapter = "tool"
    /\ pc = "start"
    /\ IF validateProviderConfig(providerConfig) # NULL
       THEN /\ ToolCatch("validation", validateProviderConfig(providerConfig))
            /\ UNCHANGED instances
       ELSE IF createProviderInstance(providerConfig) # NULL
            THEN /\ ToolCatch("provider", createProviderInstance(providerConfig))
                 /\ UNCHANGED instances
            ELSE /\ instances' = instances + 1
                 /\ pc' = "shot"
                 /\ UNCHANGED <<out, failure, lateAction>>
    /\ UNCHANGED <<adapter, aborted, modelCalls, screenshots, jsonVars, execVars>>
    /\ UNCHANGED <<providerConfig, variant, chunk, sdkVars>>
    /\ UNCHANGED histVars
    /\ UNCHANGED <<route, frontVars>>

\* streamText({... messages, stopWhen: stepCountIs(50) ...}); the first
\* step is called with the messages as given
StartStreamText ==
    /\ modelCalls' = modelCalls + 1
    /\ sdk' = "step"
    /\ stepCount' = 1
    /\ UNCHANGED <<callInStep, pendingCall, errorChunks>>

\* the initial screenshot resolves or rejects; then the history is built and
\* the adapter is selected
ToolInitialScreenshot ==
    /\ adapter = "tool"
    /\ pc = "shot"
    /\ \/ /\ screenshots' = screenshots + 1
          /\ history' = Seeded(formattedMessages(inbound, screenshots'))
          /\ IF hasNativeComputerUse(providerConfig.type, providerConfig.model)
                /\ providerConfig.useNativeComputerUse
             THEN /\ pc' = "import"
                  /\ UNCHANGED <<modelCalls, sdkVars>>
             ELSE /\ pc' = "streaming"
                  /\ StartStreamText
          /\ UNCHANGED <<out, failure, lateAction>>
       \/ /\ ToolCatch("screenshot", "screenshot failed")
          /\ UNCHANGED <<screenshots, modelCalls, sdkVars, history>>
    /\ UNCHANGED <<adapter, aborted, jsonVars, providerConfig, variant, instances, chunk, execVars>>
    /\ UNCHANGED inbound
    /\ UNCHANGED <<route, frontVars>>

\* streamNativeComputerUse after its dynamic imports: the vendor streamers
\* for openai / anthropic, otherwise the fallback to tool calling
ToolNativeComputerUse ==
    /\ adapter = "tool"
    /\ pc = "import"
    /\ \/ /\ IF providerConfig.type \in {"openai", "anthropic"}
             THEN /\ pc' = "native"
                  /\ UNCHANGED <<instances, modelCalls, sdkVars>>
             ELSE /\ instances' = instances + 1
                  /\ pc' = "streaming"
                  /\ StartStreamText
          /\ UNCHANGED <<out, failure, lateAction>>
       \/ /\ ToolCatch("import", "import failed")
          /\ UNCHANGED <<instances, modelCalls, sdkVars>>
    /\ UNCHANGED <<adapter, aborted, screenshots, jsonVars, providerConfig, variant, chunk, execVars>>
    /\ UNCHANGED histVars
    /\ UNCHANGED <<route, frontVars>>

\* one turn of for await (const chunk of result.fullStream)
ToolChunk ==
    /\ adapter = "tool"
    /\ pc = "streaming"
    /\ \E c \in NextChunks :
         /\ chunk' = c
         /\ Deliver(c)
         /\ history' = IF StartsStep(c) THEN Push(history, StepResponse) ELSE history
         /\ IF CancellationObserved
            THEN /\ Yield(<<StoppedEv>>)
                 /\ pc' = "end"
            ELSE /\ Yield(Translate(c))
                 /\ pc' = IF c.type = "finish" THEN "end" ELSE "streaming"
    /\ UNCHANGED <<adapter, aborted, modelCalls, screenshots, failure, jsonVars, execVars>>
    /\ UNCHANGED <<providerConfig, variant, instances>>
    /\ UNCHANGED inbound
    /\ UNCHANGED <<route, frontVars>>

\* the stream is exhausted: the loop and both generators complete
ToolStreamEnd ==
    /\ adapter = "tool"
    /\ pc = "streaming"
    /\ sdk = "closed"
    /\ pc' = "end"
    /\ UNCHANGED <<sessionVars, jsonVars, toolVars, execVars>>
    /\ UNCHANGED histVars
    /\ UNCHANGED <<route, frontVars>>

\* reading the stream throws
ToolStreamThrow ==
    /\ adapter = "tool"
    /\ pc = "streaming"
    /\ sdk # "closed"
    /\ ToolCatch("stream", "stream failed")
    /\ sdk' = "closed"
    /\ UNCHANGED <<adapter, aborted, modelCalls, screenshots, jsonVars, execVars>>
    /\ UNCHANGED <<providerConfig, variant, instances, chunk, stepCount, callInStep, pendingCall, errorChunks>>
    /\ UNCHANGED histVars
    /\ UNCHANGED <<route, frontVars>>

ToolNext ==
    \/ ToolStart
    \/ ToolInitialScreenshot
    \/ ToolNativeComputerUse
    \/ ToolChunk
    \/ ToolStreamEnd
    \/ ToolStreamThrow

InitTool ==
    /\ adapter = "tool"
    /\ pc = "start"
    /\ providerConfig \in Configs
    /\ variant \in {"inline", "adapter"}
    /\ inbound = SingleRequest
    /\ InitSession
    /\ route = NoRoute
    /\ IdleFront
    /\ IdleExecutor

Init == InitJson \/ InitTool

Next == Abort \/ JsonNext \/ ToolNext

Spec == Init /\ [][Next]_vars

\* A session of the JSON adapter alone.  The consumer keeps pulling the
\* generator and every awaited call settles, so a generator that can take a
\* step eventually takes one.
JsonSessionNext == Abort \/ JsonNext

JsonFairSpec == InitJson /\ [][JsonSessionNext]_vars /\ WF_vars(JsonNext)

(***************************************************************************)
(* The chat route (POST of app/api/chat): it creates a sandbox or connects *)
(* to the one the request names, and answers with the stream of the        *)
(* streamer, behind a SANDBOX_CREATED event when it created the sandbox.   *)
(* The streamer behind the route is the JSON adapter.                      *)
(***************************************************************************)
SandboxCreatedEv(id, url) == Ev("SANDBOX_CREATED", id \o " " \o url)

\* body.sandboxId: absent, or the id of an existing sandbox
RequestSandboxIds == {Absent, "sbx-1"}

InitRoute ==
    /\ adapter = "json"
    /\ pc = "route"
    /\ providerConfig = NoConfig
    /\ variant = "none"
    /\ inbound = SingleRequest
    /\ InitSession
    /\ IdleExecutor
    /\ IdleFront
    /\ \E id \in RequestSandboxIds :
         route = [sandboxId |-> id, activeSandboxId |-> id, vncUrl |-> Absent,
                  state |-> "received"]

\* the response is an error status and carries no stream
RouteFails ==
    /\ route' = [route EXCEPT !.state = "failed"]
    /\ pc' = "end"

\* Sandbox.create and stream.start, or Sandbox.connect; each may throw
RouteSandbox ==
    /\ pc = "route"
    /\ route.state = "received"
    /\ \/ /\ route' = IF route.activeSandboxId = Absent
                       THEN [route EXCEPT !.activeSandboxId = "sbx-2",
                                          !.vncUrl = "https://sbx-2/vnc",
                                          !.state = "connected"]
                       ELSE [route EXCEPT !.state = "connected"]
          /\ UNCHANGED pc
       \/ RouteFails
    /\ UNCHANGED <<sessionVars, jsonVars, toolVars, execVars, histVars, frontVars>>

\* the announcement emitted for every request
RouteAnnouncesAlways == TRUE

\* !sandboxId && activeSandboxId && vncUrl
RouteAnnounces ==
    route.sandboxId = Absent /\ route.activeSandboxId # Absent /\ route.vncUrl # Absent

\* the streamer is built (which may throw) and the response stream is
\* pulled for the first time
RouteRespond ==
    /\ pc = "route"
    /\ route.state = "connected"
    /\ \/ /\ route' = [route EXCEPT !.state = "streaming"]
          /\ pc' = "init"
          /\ IF RouteAnnounces
             THEN Yield(<<SandboxCreatedEv(route.activeSandboxId, route.vncUrl)>>)
             ELSE UNCHANGED <<out, lateAction>>
       \/ /\ RouteFails
          /\ UNCHANGED <<out, lateAction>>
    /\ UNCHANGED <<adapter, aborted, modelCalls, screenshots, failure>>
    /\ UNCHANGED <<jsonVars, toolVars, execVars, histVars, frontVars>>

RouteNext == RouteSandbox \/ RouteRespond \/ Abort \/ JsonNext

RouteSpec == InitRoute /\ [][RouteNext]_vars

(***************************************************************************)
(* Adapter selection.  A session of AISDKComputerStreamer.stream up to the *)
(* point where an adapter has been chosen, over vendors with and without a *)
(* native protocol and model ids that do and do not carry a native name.   *)
(***************************************************************************)
SelectionTypes == {"openai", "anthropic", "google", "ollama", "custom", "azure"}

SelectionModelIds ==
    {"", "computer-use-preview", "Claude-Sonnet-4-Latest", "my-claude-3-7-sonnet",
     "gpt-4o", "claude-3-opus"}

SelectionConfigs ==
    { c \in [ type : SelectionTypes, model : SelectionModelIds, apiKey : {"", "sk-1"},
              baseUrl : {"", "http://host/v1"}, useNativeComputerUse : BOOLEAN ] :
          c.type # "custom" => c.baseUrl = "" }

InitSelection ==
    /\ adapter = "tool"
    /\ pc = "start"
    /\ providerConfig \in SelectionConfigs
    /\ variant = "inline"
    /\ inbound = SingleRequest
    /\ InitSession
    /\ route = NoRoute
    /\ IdleFront
    /\ IdleExecutor

SelectionNext == ToolStart \/ ToolInitialScreenshot \/ ToolNativeComputerUse

SelectionSpec == InitSelection /\ [][SelectionNext]_vars

(***************************************************************************)
(* Validation.  One call of validateProviderConfig, in either revision of  *)
(* the provider types, on a provider configuration.                        *)
(***************************************************************************)
Validators == {"validateProviderConfig", "validateProviderConfig, other revision"}

InitValidation ==
    /\ adapter = "none"
    /\ pc = "end"
    /\ providerConfig \in SelectionConfigs
    /\ variant = "none"
    /\ inbound = << >>
    /\ InitSession
    /\ route = NoRoute
    /\ IdleFront
    /\ executor \in Validators
    /\ params = [action |-> "none"]
    /\ calls = << >>
    /\ outcome = [success |-> FALSE, screenshot |-> FALSE, error |-> "none"]
    /\ epc = "ready"

\* the value returned, as the error field of the outcome
Validate ==
    /\ executor \in Validators
    /\ epc = "ready"
    /\ LET r == IF executor = "validateProviderConfig"
                THEN validateProviderConfig(providerConfig)
                ELSE validateProviderConfigUnlessCustom(providerConfig)
       IN outcome' = [success |-> r = NULL, screenshot |-> FALSE, error |-> r]
    /\ epc' = "returned"
    /\ UNCHANGED <<pc, sessionVars, jsonVars, toolVars, executor, params, calls, histVars>>
    /\ UNCHANGED <<route, frontVars>>

ValidationSpec == InitValidation /\ [][Validate]_vars

(***************************************************************************)
(* History seeding.  A session of either adapter up to its first model     *)
(* call, over every conversation of at most MaxInbound messages.           *)
(***************************************************************************)
\* a configuration that passes validation and has no native protocol
PlainConfig ==
    [type |-> "google", model |-> "gpt-4o", apiKey |-> "sk-1", baseUrl |-> "",
     useNativeComputerUse |-> FALSE]

InitHistory ==
    /\ \/ adapter = "json" /\ pc = "init" /\ providerConfig = NoConfig /\ variant = "none"
       \/ adapter = "tool" /\ pc = "start" /\ providerConfig = PlainConfig /\ variant = "inline"
    /\ inbound \in Inbounds
    /\ InitSession
    /\ route = NoRoute
    /\ IdleFront
    /\ IdleExecutor

HistoryNext == JsonInitialScreenshot \/ JsonLoopHead \/ ToolStart \/ ToolInitialScreenshot

HistorySpec == InitHistory /\ [][HistoryNext]_vars

(***************************************************************************)
(* Action executors: executeComputerAction (lib/tools/computer-tool) and   *)
(* OpenAICompatibleComputerStreamer.executeAction.  One invocation is one  *)
(* step: the calls it makes on the desktop and on the resolution scaler    *)
(* are logged in order, and any one of them may throw.                     *)
(***************************************************************************)
\* numbers as the executors see them
Num(n) == <<"num", n>>
Undefined == <<"undefined", 0>>
NaN == <<"nan", 0>>

\* an absent string field, an absent array field
NoString == "undefined"
NoList == [has |-> FALSE, v |-> << >>]
List(l) == [has |-> TRUE, v |-> l]

Call(m, a) == [method |-> m, args |-> a]

\* the model resolution (getScaledResolution)
ModelWidth == 1000
ModelHeight == 800

\* device pixels per model pixel on each axis
ScaleRatio == 2

scaleAxis(v) == IF v[1] = "num" THEN Num(v[2] * ScaleRatio) ELSE NaN

\* resolutionScaler.scaleToOriginalSpace([x, y])
scaleToOriginalSpace(pt) == <<scaleAxis(pt[1]), scaleAxis(pt[2])>>

\* the model-space point handed to the desktop as it is
Unscaled(pt) == pt

\* the point an executor hands to a desktop pointer method
DevicePoint(pt) == scaleToOriginalSpace(pt)

ScaleCall(pt) == Call("scaleToOriginalSpace", pt)

PointerMethods == {"leftClick", "rightClick", "middleClick", "doubleClick", "moveMouse", "drag"}

\* ComputerActionSchema
ComputerActions ==
    {"click", "double_click", "type", "keypress", "scroll", "move", "drag", "wait", "screenshot"}

\* an action with every optional field absent.  The JSON adapter reads the
\* fields type, direction, amount, start_x/start_y and end_x/end_y where
\* this record has action, scroll_direction, scroll_amount, start and end.
Blank(a) ==
    [ action |-> a, x |-> Undefined, y |-> Undefined, button |-> NoString,
      text |-> NoString, keys |-> NoList, key |-> NoString, path |-> NoList,
      start |-> <<Undefined, Undefined>>, end |-> <<Undefined, Undefined>>,
      scroll_direction |-> NoString, scroll_amount |-> Undefined, scroll_y |-> Undefined ]

Xs == {Undefined, Num(10), Num(5000)}
Ys == {Undefined, Num(15)}
Buttons == {NoString, "left", "right", "middle"}
Texts == {NoString, "", "ls"}
KeyLists == {NoList, List(<< >>), List(<<"Enter">>), List(<<"Ctrl", "C">>)}
Directions == {NoString, "up", "down"}
Amounts == {Undefined, Num(0), Num(-2), Num(5)}
PathPoints == <<<<Num(4), Num(7)>>, <<Num(5000), Num(9)>>, <<Num(20), Num(30)>>>>
Paths == {NoList} \cup { List(SubSeq(PathPoints, 1, n)) : n \in 0..Len(PathPoints) }

\* the actions an executor may be handed; "hover" stands for a tag outside
\* the vocabulary
PointActions(a) ==
    { [Blank(a) EXCEPT !.x = x, !.y = y] : x \in Xs, y \in Ys }

ClickActions ==
    { [Blank("click") EXCEPT !.x = x, !.y = y, !.button = b] : x \in Xs, y \in Ys, b \in Buttons }

ScrollActions ==
    { [Blank("scroll") EXCEPT !.x = x, !.y = y, !.scroll_direction = d, !.scroll_amount = n] :
          x \in Xs, y \in Ys, d \in Directions, n \in Amounts }

CommonActions ==
    ClickActions \cup PointActions("double_click") \cup PointActions("move") \cup ScrollActions
    \cup { [Blank("type") EXCEPT !.text = t] : t \in Texts }
    \cup { [Blank("keypress") EXCEPT !.keys = k] : k \in KeyLists }
    \cup { Blank("wait"), Blank("screenshot"), Blank("hover") }

ComputerToolInputs ==
    CommonActions \cup { [Blank("drag") EXCEPT !.path = q] : q \in Paths }

JsonActionInputs ==
    CommonActions
    \cup { [Blank("keypress") EXCEPT !.key = "Enter"] }
    \cup { [Blank("scroll") EXCEPT !.scroll_y = Num(-2)] }
    \cup { [Blank("drag") EXCEPT !.start = a, !.end = b] :
               a \in {<<Undefined, Undefined>>, PathPoints[1]}, b \in {<<Undefined, Undefined>>, PathPoints[3]} }

NoOutcome == [success |-> FALSE, screenshot |-> FALSE, error |-> "null"]

\* what a failing collaborator throws: an Error, or a value that is none
ThrowKinds == {"Error", "value"}

(***************************************************************************)
(* executeComputerAction                                                   *)
(***************************************************************************)
MissingCoordinates(p) == p.x = Undefined \/ p.y = Undefined

\* a path of one point let through
DragPathEmpty(path) == ~path.has \/ Len(path.v) < 1

\* !params.path || params.path.length < 2
DragPathTooShort(path) == ~path.has \/ Len(path.v) < 2

\* the rules without the one for scroll
ComputerActionErrorNoScrollRule(p) ==
    CASE p.action \in {"click", "double_click", "move"} /\ MissingCoordinates(p) ->
             "Missing coordinates for " \o p.action
      [] p.action = "type" /\ p.text \in {NoString, ""} -> "Missing text for type action"
      [] p.action = "keypress" /\ (~p.keys.has \/ Len(p.keys.v) = 0) ->
             "Missing keys for keypress action"
      [] p.action = "drag" /\ DragPathTooShort(p.path) ->
             "Drag requires at least 2 path points"
      [] p.action \notin ComputerActions -> "Unknown action: " \o p.action
      [] OTHER -> "null"

\* the early returns { success: false, error } of the switch, "null" when
\* the action passes them
ComputerActionError(p) ==
    CASE p.action \in {"click", "double_click", "scroll", "move"} /\ MissingCoordinates(p) ->
             "Missing coordinates for " \o p.action
      [] p.action = "type" /\ p.text \in {NoString, ""} -> "Missing text for type action"
      [] p.action = "keypress" /\ (~p.keys.has \/ Len(p.keys.v) = 0) ->
             "Missing keys for keypress action"
      [] p.action = "drag" /\ DragPathTooShort(p.path) ->
             "Drag requires at least 2 path points"
      [] p.action \notin ComputerActions -> "Unknown action: " \o p.action
      [] OTHER -> "null"

\* every button clicks with the left one
ClickMethodAlwaysLeft(button) == "leftClick"

\* const button = params.button || "left" and the if chain on it
ClickMethod(button) ==
    CASE button \in {NoString, "", "left"} -> "leftClick"
      [] button = "right" -> "rightClick"
      [] button = "middle" -> "middleClick"
      [] OTHER -> "none"

\* a || d for a number a
OrElse(v, d) == IF v[1] # "num" \/ v[2] = 0 THEN d ELSE v

\* the calls of the switch for an action that passes the early returns,
\* followed by the screenshot taken after the action
\* params.path[0]
DragStart(path) == path[1]

\* the point after the first
DragSecondPoint(path) == path[2]

\* params.path[params.path.length - 1]
DragEnd(path) == path[Len(path)]

ComputerActionCalls(p) ==
    (CASE p.action = "click" ->
              <<ScaleCall(<<p.x, p.y>>)>>
              \o (IF ClickMethod(p.button) = "none" THEN << >>
                  ELSE <<Call(ClickMethod(p.button), DevicePoint(<<p.x, p.y>>))>>)
       [] p.action = "double_click" ->
              <<ScaleCall(<<p.x, p.y>>), Call("doubleClick", DevicePoint(<<p.x, p.y>>))>>
       [] p.action = "type" -> <<Call("write", <<p.text>>)>>
       [] p.action = "keypress" -> <<Call("press", <<p.keys.v>>)>>
       [] p.action = "scroll" ->
              <<ScaleCall(<<p.x, p.y>>), Call("moveMouse", DevicePoint(<<p.x, p.y>>)),
                Call("scroll", <<IF p.scroll_direction \in {NoString, ""} THEN "down"
                                 ELSE p.scroll_direction,
                                 OrElse(p.scroll_amount, Num(1))>>)>>
       [] p.action = "move" ->
              <<ScaleCall(<<p.x, p.y>>), Call("moveMouse", DevicePoint(<<p.x, p.y>>))>>
       [] p.action = "drag" ->
              <<ScaleCall(DragStart(p.path.v)), ScaleCall(DragEnd(p.path.v)),
                Call("drag", <<DevicePoint(DragStart(p.path.v)), DevicePoint(DragEnd(p.path.v))>>)>>
       [] OTHER -> << >>)
    \o <<Call("takeScreenshot", << >>)>>

\* the post-action screenshot taken after the try block
CaughtUnlessScreenshot(c) == c.method # "takeScreenshot"

\* whether a throw of call c happens inside try { ... } catch
Caught(c) == TRUE

\* catch (error): error instanceof Error ? error.message : "Action execution failed"
CaughtOutcome(kind) ==
    [ success |-> FALSE, screenshot |-> FALSE,
      error |-> IF kind = "Error" THEN "desktop failure" ELSE "Action execution failed" ]

SuccessOutcome == [success |-> TRUE, screenshot |-> TRUE, error |-> "null"]

\* executeComputerAction(params, context): an early return, or the calls of
\* the action up to the first one that throws (failAt = 0: none throws)
ExecuteComputerAction ==
    /\ executor = "computer-tool"
    /\ epc = "ready"
    /\ IF ComputerActionError(params) # "null"
       THEN /\ calls' = << >>
            /\ outcome' = [success |-> FALSE, screenshot |-> FALSE,
                           error |-> ComputerActionError(params)]
            /\ epc' = "returned"
       ELSE \E failAt \in 0..Len(ComputerActionCalls(params)), kind \in ThrowKinds :
              IF failAt = 0
              THEN /\ calls' = ComputerActionCalls(params)
                   /\ outcome' = SuccessOutcome
                   /\ epc' = "returned"
              ELSE /\ calls' = SubSeq(ComputerActionCalls(params), 1, failAt)
                   /\ IF Caught(ComputerActionCalls(params)[failAt])
                      THEN outcome' = CaughtOutcome(kind) /\ epc' = "returned"
                      ELSE outcome' = NoOutcome /\ epc' = "escaped"
    /\ UNCHANGED <<pc, sessionVars, jsonVars, toolVars, executor, params>>
    /\ UNCHANGED histVars
    /\ UNCHANGED <<route, frontVars>>

(***************************************************************************)
(* OpenAICompatibleComputerStreamer.executeAction                          *)
(***************************************************************************)
RECURSIVE JoinPlus(_)
\* keys.join("+")
JoinPlus(keys) ==
    IF keys = << >> THEN ""
    ELSE IF Len(keys) = 1 THEN keys[1]
    ELSE keys[1] \o "+" \o JoinPlus(Tail(keys))

\* (action.keys as string[]) || [action.key as string]; an undefined
\* element joins as the empty string
JsonKeys(a) == IF a.keys.has THEN a.keys.v ELSE IF a.key = NoString THEN <<"">> ELSE <<a.key>>

JsonClickMethod(button) ==
    CASE button \in {NoString, "", "left"} -> "leftClick"
      [] button = "right" -> "rightClick"
      [] button \in {"middle", "wheel"} -> "middleClick"
      [] OTHER -> "none"

JsonScrollAmount(a) == OrElse(a.scroll_y, OrElse(a.scroll_amount, Num(3)))

JsonScrollDirection(a) ==
    IF a.scroll_direction \notin {NoString, ""}
    THEN (IF a.scroll_direction = "up" THEN "up" ELSE "down")
    ELSE IF JsonScrollAmount(a)[2] < 0 THEN "up" ELSE "down"

Abs(n) == IF n < 0 THEN -n ELSE n

JsonPoint(pt) == <<OrElse(pt[1], Num(0)), OrElse(pt[2], Num(0))>>

\* the calls of the switch (actionType)
JsonActionCalls(a) ==
    CASE a.action = "double_click" ->
             <<ScaleCall(<<a.x, a.y>>), Call("doubleClick", DevicePoint(<<a.x, a.y>>))>>
      [] a.action = "click" ->
             <<ScaleCall(<<a.x, a.y>>)>>
             \o (IF JsonClickMethod(a.button) = "none" THEN << >>
                 ELSE <<Call(JsonClickMethod(a.button), DevicePoint(<<a.x, a.y>>))>>)
      [] a.action = "type" -> <<Call("write", <<a.text>>)>>
      [] a.action = "keypress" -> <<Call("press", <<JoinPlus(JsonKeys(a))>>)>>
      [] a.action = "move" ->
             <<ScaleCall(<<a.x, a.y>>), Call("moveMouse", DevicePoint(<<a.x, a.y>>))>>
      [] a.action = "scroll" ->
             <<ScaleCall(JsonPoint(<<a.x, a.y>>)),
               Call("moveMouse", DevicePoint(JsonPoint(<<a.x, a.y>>))),
               Call("scroll", <<JsonScrollDirection(a), Num(Abs(JsonScrollAmount(a)[2]))>>)>>
      [] a.action = "drag" ->
             <<ScaleCall(JsonPoint(a.start)), ScaleCall(JsonPoint(a.end)),
               Call("drag", <<DevicePoint(JsonPoint(a.start)), DevicePoint(JsonPoint(a.end))>>)>>
      [] OTHER -> << >>

\* executeAction(action): it has no try, so a throwing call leaves it; a tag
\* outside the switch is logged and the method returns like any other
JsonExecuteActionCall ==
    /\ executor = "json"
    /\ epc = "ready"
    /\ \E failAt \in 0..Len(JsonActionCalls(params)) :
         IF failAt = 0
         THEN calls' = JsonActionCalls(params) /\ epc' = "returned"
         ELSE calls' = SubSeq(JsonActionCalls(params), 1, failAt) /\ epc' = "escaped"
    /\ outcome' = NoOutcome
    /\ UNCHANGED <<pc, sessionVars, jsonVars, toolVars, executor, params>>
    /\ UNCHANGED histVars
    /\ UNCHANGED <<route, frontVars>>

InitExecutor ==
    /\ inbound = << >>
    /\ adapter = "none"
    /\ pc = "end"
    /\ providerConfig = NoConfig
    /\ variant = "none"
    /\ InitSession
    /\ route = NoRoute
    /\ IdleFront
    /\ \/ executor = "computer-tool" /\ params \in ComputerToolInputs
       \/ executor = "json" /\ params \in JsonActionInputs
    /\ calls = << >>
    /\ outcome = NoOutcome
    /\ epc = "ready"

ExecutorNext == ExecuteComputerAction \/ JsonExecuteActionCall

ExecutorSpec == InitExecutor /\ [][ExecutorNext]_vars

(***************************************************************************)
(* Shell tool (createBashTool).  A command is kept as its length.  A call  *)
(* coming from the model is parsed by the input schema before execute; a   *)
(* caller holding the tool can invoke execute directly.  Two revisions of  *)
(* the schema exist.                                                       *)
(***************************************************************************)
MaxCommandLength == 100000
MaxTimeout == 300000
DefaultTimeout == 30000

\* a timeout that is not a whole number of milliseconds
Fraction(n) == <<"fraction", n>>

CommandLengths == {0, 1, MaxCommandLength, MaxCommandLength + 1}

Timeouts ==
    {Undefined, Num(-1), Num(0), Num(DefaultTimeout), Num(MaxTimeout), Num(MaxTimeout + 1),
     Fraction(1500)}

BashToolInputs ==
    [action : {"shell_exec"}, command : CommandLengths, timeout : Timeouts,
     schema : {"bounded", "unbounded"}, entry : {"tool-call", "execute"}]

Rejected == [ok |-> FALSE, command |-> 0, timeout |-> Undefined]

Parsed(command, timeout) == [ok |-> TRUE, command |-> command, timeout |-> timeout]

\* z.object({command: z.string().min(1).max(100000),
\*           timeout: z.number().int().min(0).max(300_000).optional().default(30_000)})
bashToolInputSchema(input) ==
    IF input.command < 1 \/ input.command > MaxCommandLength THEN Rejected
    ELSE IF input.timeout = Undefined THEN Parsed(input.command, Num(DefaultTimeout))
    ELSE IF input.timeout[1] # "num" THEN Rejected
    ELSE IF input.timeout[2] < 0 \/ input.timeout[2] > MaxTimeout THEN Rejected
    ELSE Parsed(input.command, input.timeout)

\* z.object({command: z.string(), timeout: z.number().optional().default(30_000)})
bashToolInputSchemaUnbounded(input) ==
    IF input.timeout = Undefined THEN Parsed(input.command, Num(DefaultTimeout))
    ELSE Parsed(input.command, input.timeout)

\* what execute receives
BashToolArguments(input) ==
    IF input.entry = "execute" THEN Parsed(input.command, input.timeout)
    ELSE IF input.schema = "bounded" THEN bashToolInputSchema(input)
    ELSE bashToolInputSchemaUnbounded(input)

InitBashTool ==
    /\ adapter = "none"
    /\ pc = "end"
    /\ providerConfig = NoConfig
    /\ variant = "none"
    /\ inbound = << >>
    /\ InitSession
    /\ route = NoRoute
    /\ IdleFront
    /\ executor = "bash-tool"
    /\ params \in BashToolInputs
    /\ calls = << >>
    /\ outcome = [success |-> FALSE, screenshot |-> FALSE, error |-> "none"]
    /\ epc = "ready"

\* execute: sandbox.commands.run(command, { timeoutMs: timeout }), which
\* resolves or rejects
ExecuteBashTool ==
    /\ executor = "bash-tool"
    /\ epc = "ready"
    /\ LET a == BashToolArguments(params)
       IN IF a.ok
          THEN /\ calls' = <<Call("commands.run", <<a.command, a.timeout>>)>>
               /\ \/ outcome' = [success |-> TRUE, screenshot |-> FALSE, error |-> "null"]
                  \/ outcome' = [success |-> FALSE, screenshot |-> FALSE, error |-> "run failed"]
          ELSE /\ calls' = << >>
               /\ outcome' = [success |-> FALSE, screenshot |-> FALSE, error |-> "invalid input"]
    /\ epc' = "returned"
    /\ UNCHANGED <<pc, sessionVars, jsonVars, toolVars, executor, params, histVars>>
    /\ UNCHANGED <<route, frontVars>>

BashToolSpec == InitBashTool /\ [][ExecuteBashTool]_vars

(***************************************************************************)
(* The chat client (ChatProvider in lib/chat-context.tsx).  A request is   *)
(* one invocation of sendMessage that got past the isLoading guard; it is  *)
(* "fetching" until fetch resolves, "reading" while its while loop reads   *)
(* the response stream, "ended" once the reader has reported done and      *)
(* "failed" once the catch block has run.  Several requests can be alive   *)
(* at once: each is an async function suspended at its own await.          *)
(***************************************************************************)
\* how many events the client receives over all its requests, counting for
\* every request the DONE or ERROR its stream holds
MaxEvents == 3

EventTypes ==
    {"ACTION", "ACTION_COMPLETED", "REASONING", "DONE", "ERROR", "SANDBOX_CREATED"}

\* the events after which the adapters end a stream
TerminalTypes == {"DONE", "ERROR"}

ChatMessage(role, content, status) ==
    [role |-> role, content |-> content, status |-> status]

userMessage == ChatMessage("user", "task", "none")
actionMessage == ChatMessage("action", "action", "pending")
reasoningMessage == ChatMessage("assistant", "reasoning", "none")
TaskStarted == ChatMessage("system", "Task started", "none")
systemMessage == ChatMessage("system", "Task completed", "none")
errorMessage == ChatMessage("system", "error", "none")

NewRequest == [state |-> "fetching", delivered |-> 0, terminal |-> FALSE, aborted |-> FALSE]

\* the value of abortControllerRef that stands for the controller of a
\* request of an earlier conversation, which has finished
EarlierController == -1

InFlight(r) == r \in 1..Len(requests) /\ requests[r].state \in {"fetching", "reading"}

RECURSIVE Spent(_)
\* the events received so far, with one DONE or ERROR counted for every
\* request from its start
Spent(reqs) ==
    IF reqs = << >>
    THEN 0
    ELSE LET q == Head(reqs)
         IN (IF q.terminal THEN q.delivered ELSE q.delivered + 1) + Spent(Tail(reqs))

\* [...prev].reverse().findIndex(role === "action"), as an index of prev
\* (0 when there is none)
lastActionIndex(prev) ==
    LET found == {i \in 1..Len(prev) : prev[i].role = "action"}
    IN IF found = {} THEN 0 ELSE CHOOSE i \in found : \A j \in found : j <= i

\* the index of the first action message (findIndex without the reverse)
firstActionIndex(prev) ==
    LET found == {i \in 1..Len(prev) : prev[i].role = "action"}
    IN IF found = {} THEN 0 ELSE CHOOSE i \in found : \A j \in found : i <= j

\* the updater of the ACTION_COMPLETED case, with the index it looks up
CompleteAt(prev, actualIndex) ==
    IF actualIndex # 0
    THEN [index \in 1..Len(prev) |->
            IF index = actualIndex
            THEN [prev[index] EXCEPT !.status = "completed"]
            ELSE prev[index]]
    ELSE prev

CompleteFirstAction(prev) == CompleteAt(prev, firstActionIndex(prev))

CompleteLastAction(prev) == CompleteAt(prev, lastActionIndex(prev))

\* setIsLoading(false) left out of a handler
KeepLoading(loading) == loading

\* setIsLoading(false) in the DONE case
DoneClearsLoading(loading) == FALSE

\* the guard of sendMessage left out
NeverBusy(loading) == FALSE

\* if (isLoading) return
Busy(loading) == loading

\* sendMessage up to its first await (fetch)
sendMessage ==
    /\ Spent(requests) < MaxEvents
    /\ IF Busy(isLoading)
       THEN UNCHANGED clientVars
       ELSE /\ isLoading' = TRUE
            /\ error' = "null"
            /\ messages' = Append(messages, userMessage)
            /\ abortControllerRef' = Len(requests) + 1
            /\ requests' = Append(requests, NewRequest)
    /\ UNCHANGED <<pc, sessionVars, jsonVars, toolVars, execVars, histVars, route>>
    /\ UNCHANGED <<decodeVars, storeVars>>

\* fetch resolves with an ok response that has a body: "Task started" is
\* appended and the loop starts reading
Respond(r) ==
    /\ requests[r].state = "fetching"
    /\ ~requests[r].aborted
    /\ messages' = Append(messages, TaskStarted)
    /\ requests' = [requests EXCEPT ![r].state = "reading"]
    /\ UNCHANGED <<isLoading, error, abortControllerRef>>
    /\ UNCHANGED <<pc, sessionVars, jsonVars, toolVars, execVars, histVars, route>>
    /\ UNCHANGED <<decodeVars, storeVars>>

\* the switch over parsedEvent.type
Handle(type) ==
    CASE type = "ACTION" ->
           /\ messages' = Append(messages, actionMessage)
           /\ UNCHANGED <<isLoading, error>>
      [] type = "REASONING" ->
           /\ messages' = Append(messages, reasoningMessage)
           /\ UNCHANGED <<isLoading, error>>
      [] type = "DONE" ->
           /\ messages' = Append(messages, systemMessage)
           /\ isLoading' = DoneClearsLoading(isLoading)
           /\ UNCHANGED error
      [] type = "ERROR" ->
           /\ error' = "set"
           /\ messages' = Append(messages, errorMessage)
           /\ isLoading' = FALSE
      [] type = "SANDBOX_CREATED" ->
           UNCHANGED <<messages, isLoading, error>>
      [] type = "ACTION_COMPLETED" ->
           /\ messages' = CompleteLastAction(messages)
           /\ UNCHANGED <<isLoading, error>>

\* reader.read() resolves with a chunk that completes one event of the given
\* type.  Every stream holds, as every stream of the adapters does, a DONE
\* or an ERROR.
ReadEvent(r, type) ==
    /\ requests[r].state = "reading"
    /\ ~requests[r].aborted
    /\ \/ type \in TerminalTypes /\ ~requests[r].terminal
       \/ Spent(requests) < MaxEvents
    /\ Handle(type)
    /\ requests' = [requests EXCEPT ![r].delivered = @ + 1,
                                    ![r].terminal = @ \/ type \in TerminalTypes]
    /\ UNCHANGED abortControllerRef
    /\ UNCHANGED <<pc, sessionVars, jsonVars, toolVars, execVars, histVars, route>>
    /\ UNCHANGED <<decodeVars, storeVars>>

\* reader.read() resolves with done: every event of the stream ended with a
\* blank line, so buffer.trim() is empty and the loop is left
ReaderDone(r) ==
    /\ requests[r].state = "reading"
    /\ ~requests[r].aborted
    /\ requests[r].terminal
    /\ requests' = [requests EXCEPT ![r].state = "ended"]
    /\ UNCHANGED <<messages, isLoading, error, abortControllerRef>>
    /\ UNCHANGED <<pc, sessionVars, jsonVars, toolVars, execVars, histVars, route>>
    /\ UNCHANGED <<decodeVars, storeVars>>

\* the catch block: fetch or reader.read() rejected (the network failed or
\* the controller was aborted), the response was not ok, or it had no body
Catch(r) ==
    /\ InFlight(r)
    /\ error' = "set"
    /\ isLoading' = FALSE
    /\ requests' = [requests EXCEPT ![r].state = "failed"]
    /\ UNCHANGED <<messages, abortControllerRef>>
    /\ UNCHANGED <<pc, sessionVars, jsonVars, toolVars, execVars, histVars, route>>
    /\ UNCHANGED <<decodeVars, storeVars>>

\* stopGeneration: abort the controller the ref holds, which rejects the
\* pending fetch or read of its request, and clear isLoading
stopGeneration ==
    /\ IF abortControllerRef # 0
       THEN /\ requests' = IF InFlight(abortControllerRef)
                           THEN [requests EXCEPT ![abortControllerRef].aborted = TRUE]
                           ELSE requests
            /\ isLoading' = FALSE
            /\ UNCHANGED <<messages, error, abortControllerRef>>
       ELSE UNCHANGED clientVars
    /\ UNCHANGED <<pc, sessionVars, jsonVars, toolVars, execVars, histVars, route>>
    /\ UNCHANGED <<decodeVars, storeVars>>

\* one step of the request r: its suspended await resumes
RequestStep(r) ==
    \/ Respond(r)
    \/ \E type \in EventTypes : ReadEvent(r, type)
    \/ ReaderDone(r)
    \/ Catch(r)

InitClient ==
    /\ adapter = "none"
    /\ pc = "end"
    /\ providerConfig = NoConfig
    /\ variant = "none"
    /\ inbound = << >>
    /\ InitSession
    /\ IdleExecutor
    /\ route = NoRoute
    /\ IdleFront

\* what an earlier task has left in the client when this one starts:
\* nothing, or the messages of a task whose stream was ACTION, ERROR
EarlierConversations ==
    { << >>, <<userMessage, TaskStarted, actionMessage, errorMessage>> }

\* the client between two tasks: no request is alive
InitConversation ==
    /\ adapter = "none"
    /\ pc = "end"
    /\ providerConfig = NoConfig
    /\ variant = "none"
    /\ inbound = << >>
    /\ InitSession
    /\ IdleExecutor
    /\ route = NoRoute
    /\ IdleDecoder
    /\ IdleStore
    /\ messages \in EarlierConversations
    /\ isLoading = FALSE
    /\ error = (IF messages = << >> THEN "null" ELSE "set")
    /\ abortControllerRef = (IF messages = << >> THEN 0 ELSE EarlierController)
    /\ requests = << >>

ClientNext ==
    \/ sendMessage
    \/ stopGeneration
    \/ \E r \in 1..Len(requests) : Respond(r)
    \/ \E r \in 1..Len(requests) : \E type \in EventTypes : ReadEvent(r, type)
    \/ \E r \in 1..Len(requests) : ReaderDone(r)
    \/ \E r \in 1..Len(requests) : Catch(r)

ClientSpec == InitConversation /\ [][ClientNext]_vars

\* the network delivers or fails: a request that can take a step takes one
ClientFairSpec ==
    /\ InitClient
    /\ [][ClientNext]_vars
    /\ WF_vars(\E r \in 1..Len(requests) : RequestStep(r))

(***************************************************************************)
(* Properties                                                              *)
(***************************************************************************)
\* the event sequence ends with evs
EndsWith(evs) ==
    /\ Len(out.recent) >= Len(evs)
    /\ SubSeq(out.recent, Len(out.recent) - Len(evs) + 1, Len(out.recent)) = evs

\* C1: in the JSON adapter the event sequence holds at most one DONE and no
\* event follows a DONE, whatever the replies and at whichever iteration
\* the session ends.
C1_DoneIsTerminal ==
    adapter = "json" => (out.nDone <= 1 /\ ~out.afterDone)

\* a run of the tool-calling adapter whose model stream was opened and has
\* terminated without anything thrown
ToolRunEnded == adapter = "tool" /\ pc = "end" /\ sdk # "idle" /\ failure = "none"

\* C2 (as claimed): every run of the tool-calling adapter whose model stream
\* terminates without throwing emits exactly one DONE, as its last event.
C2_ExactlyOneDone ==
    ToolRunEnded => (out.nDone = 1 /\ LastEvent.type = "DONE")

\* C2 (amended): such a run emits at most one DONE and nothing after it.  It
\* emits exactly one, as its last event, when the stream delivered its
\* finish part or a chunk was read after cancellation; it emits none exactly
\* when the stream closed after an error part without a finish part, and
\* then its last event is the ERROR of that part.
C2_DoneUnlessErrorClosed ==
    ToolRunEnded =>
        /\ out.nDone <= 1
        /\ ~out.afterDone
        /\ out.nDone = 1 => LastEvent.type = "DONE"
        /\ out.nDone = 1 <=> (chunk.type = "finish" \/ LastEvent = StoppedEv)
        /\ out.nDone = 0 <=> (chunk = Chunk("error", FALSE) /\ LastEvent = ProviderErrorEv)

C2_Witness ==
    /\ ToolRunEnded
    /\ chunk.type = "finish"
    /\ stepCount = 2
    /\ out.nDone = 1
    /\ LastEvent = DoneEv

\* C3: the run never starts more than MaxSteps steps; a run whose every
\* step proposes a tool call stops only at step MaxSteps, and the session
\* then has proposed MaxSteps actions and ends with exactly one DONE.
C3_StepBudget ==
    adapter = "tool" =>
        /\ stepCount <= MaxSteps
        /\ out.nAction <= MaxSteps
        /\ (sdk = "finishing" /\ callInStep) => stepCount = MaxSteps
        /\ (chunk.type = "finish" /\ callInStep) =>
               /\ stepCount = MaxSteps
               /\ out.nAction = MaxSteps
               /\ pc = "end"
               /\ out.nDone = 1
               /\ LastEvent.type = "DONE"

C3_Witness ==
    /\ adapter = "tool"
    /\ pc = "end"
    /\ chunk.type = "finish"
    /\ callInStep
    /\ stepCount = MaxSteps
    /\ out.nAction = MaxSteps
    /\ LastEvent = DoneEv

\* the counters of the JSON adapter stay within the cap, and a loop left by
\* its condition has used the whole cap and ends with the note and the DONE
IterationCapped ==
    adapter = "json" =>
        /\ iteration <= maxIterations
        /\ modelCalls <= maxIterations
        /\ out.nAction <= maxIterations
        /\ (pc = "end" /\ leftBy = "condition") =>
               /\ modelCalls = maxIterations
               /\ EndsWith(<<Ev("REASONING", LimitMessage), DoneEv>>)
               /\ out.nDone = 1

\* C4: the JSON adapter always terminates; it calls the model at most
\* maxIterations times and emits at most maxIterations ACTION events
\* whatever the replies; when the loop is left because the cap is exhausted
\* the sequence ends with the REASONING noting the limit followed by the
\* only DONE.
C4_IterationCap == []IterationCapped /\ <>(pc = "end")

C4_Witness ==
    /\ adapter = "json"
    /\ pc = "end"
    /\ leftBy = "condition"
    /\ modelCalls = maxIterations
    /\ out.nAction = maxIterations
    /\ EndsWith(<<Ev("REASONING", LimitMessage), DoneEv>>)

\* C5: in the tool-calling adapter a chunk read while the signal is set is
\* answered with exactly one DONE carrying the stop message and nothing else
\* (no ERROR, no ACTION), and the loop is left; no ACTION is ever yielded
\* once the signal is set.
C5_CancellationAtChunkBoundary ==
    /\ [](adapter = "tool" => ~lateAction)
    /\ [][(ToolChunk /\ aborted) => (out' = Received(out, <<StoppedEv>>) /\ pc' = "end")]_vars

C5_Witness ==
    /\ adapter = "tool"
    /\ pc = "end"
    /\ aborted
    /\ out.nAction > 0
    /\ out.nDone = 1
    /\ LastEvent = StoppedEv

\* C6: in the JSON adapter, once the signal is set no ACTION is emitted any
\* more, and the session ends with exactly one DONE.
C6_CancellationIdempotent ==
    adapter = "json" =>
        /\ ~lateAction
        /\ (pc = "end" /\ aborted) => (out.nDone = 1 /\ LastEvent.type = "DONE")

\* C7: every ACTION is followed by exactly one ACTION_COMPLETED or ERROR
\* before the next ACTION and before the end of the sequence, and no
\* ACTION_COMPLETED comes without an ACTION waiting for it.
C7_ActionsPaired ==
    /\ ~out.misordered
    /\ pc = "end" => ~out.open

\* C8: in the tool-calling adapter the chunk of a proposed tool call yields
\* the ACTION alone, ACTION_COMPLETED is yielded for the chunk of a
\* successful result, and the chunk of a failed execution yields an ERROR
\* and leaves the loop running.
C8_CompletedOnlyAfterSuccess ==
    [][(ToolChunk /\ ~aborted) =>
          /\ chunk'.type = "tool-call" => out' = Received(out, <<ActionEv>>)
          /\ (chunk'.type = "tool-result" /\ chunk'.ok) => out' = Received(out, <<CompletedEv>>)
          /\ (chunk'.type \in {"tool-result", "tool-error"} /\ ~chunk'.ok) =>
                 /\ out'.nError = out.nError + 1
                 /\ LastOf(out').type = "ERROR"
                 /\ pc' = "streaming"]_vars

\* the validation rules, in the order model, base URL, credential
FailsValidation(c) ==
    \/ c.model = ""
    \/ c.type = "custom" /\ c.baseUrl = ""
    \/ c.type \notin {"custom", "ollama"} /\ c.apiKey = ""

C10_ErrorIsLast ==
    failure # "none" => (pc = "end" /\ LastEvent.type = "ERROR")

\* C10 (amended): whenever a call inside a generator throws, the generator
\* completes without the exception leaving it; the ERROR reporting the
\* failure is the last event, except that the JSON adapter follows the ERROR
\* of a rejected model call with one DONE.  In the JSON adapter that ERROR
\* is the only one; in the tool-calling adapter it is the only one besides
\* those translated from error parts of the stream.
C10_ErrorEndsSequence ==
    failure # "none" =>
        /\ pc = "end"
        /\ IF adapter = "json" /\ failure = "model"
           THEN EndsWith(<<ApiErrorEv, DoneEv>>) /\ out.nDone = 1
           ELSE LastEvent.type = "ERROR" /\ out.nDone = 0
        /\ out.nError = errorChunks + 1

C10_Witness ==
    /\ adapter = "json"
    /\ failure = "model"
    /\ pc = "end"
    /\ out.nAction > 0
    /\ EndsWith(<<ApiErrorEv, DoneEv>>)

\* C11 (as claimed): in the tool-calling adapter, once an ERROR has been
\* emitted (for an error part of the stream or for a thrown call) the
\* session has ended: no chunk is translated and no event of any kind is
\* emitted after it.
C11_ProviderErrorFatal ==
    [][(adapter = "tool" /\ out.nError > 0) => out' = out]_vars

\* C12: in the JSON adapter a rejected model call is reported by exactly one
\* ERROR naming the failure, after which the generator has completed: the
\* failed call was the last model call (one call per iteration taken), no
\* action is left executing, and the sequence ends with that ERROR and the
\* closing DONE.
C12_ApiErrorFatal ==
    (adapter = "json" /\ failure = "model") =>
        /\ pc = "end"
        /\ out.nError = 1
        /\ EndsWith(<<ApiErrorEv, DoneEv>>)
        /\ modelCalls = iteration
        /\ curAction = "none"
        /\ ~out.open

C12_Witness ==
    /\ adapter = "json"
    /\ failure = "model"
    /\ pc = "end"
    /\ modelCalls = 2
    /\ out.nAction = 1
    /\ out.nError = 1
    /\ EndsWith(<<ApiErrorEv, DoneEv>>)

\* C13 (as claimed): in the JSON adapter a desktop call that throws while an
\* action is executed does not end the session: the generator is still
\* running after the ERROR, or the session has ended with a DONE.
C13_ExecutionErrorNonFatal ==
    (adapter = "json" /\ failure = "exec") =>
        (pc # "end" \/ (out.nDone = 1 /\ LastEvent.type = "DONE"))

\* the calls of a log that went to the desktop
DesktopCalls(cs) ==
    { i \in 1..Len(cs) : cs[i].method \notin {"scaleToOriginalSpace", "takeScreenshot"} }

CallsOf(cs, methods) == { i \in 1..Len(cs) : cs[i].method \in methods }

InViewport(pt) ==
    /\ pt[1][1] = "num" /\ pt[1][2] >= 0 /\ pt[1][2] < ModelWidth
    /\ pt[2][1] = "num" /\ pt[2][2] >= 0 /\ pt[2][2] < ModelHeight

\* a click or move whose point, or a drag one of whose endpoints, is present
\* and outside the viewport
OutsideViewport(p) ==
    \/ /\ p.action \in {"click", "move"}
       /\ p.x # Undefined /\ p.y # Undefined
       /\ ~InViewport(<<p.x, p.y>>)
    \/ /\ p.action = "drag"
       /\ p.path.has /\ Len(p.path.v) >= 2
       /\ (~InViewport(p.path.v[1]) \/ ~InViewport(p.path.v[Len(p.path.v)]))

\* C14 (as claimed): executeComputerAction answers a click, move or drag
\* whose point lies outside the model resolution with a failure outcome and
\* makes no call on the desktop.
C14_BoundsRejection ==
    (executor = "computer-tool" /\ epc # "ready" /\ OutsideViewport(params)) =>
        (~outcome.success /\ DesktopCalls(calls) = {})

CoordinateActions == {"click", "double_click", "scroll", "move"}

MissingCoordinatesMessage(a) ==
    CASE a = "click" -> "Missing coordinates for click"
      [] a = "double_click" -> "Missing coordinates for double_click"
      [] a = "scroll" -> "Missing coordinates for scroll"
      [] a = "move" -> "Missing coordinates for move"

\* C15: for click, double_click, scroll and move, a missing x or y makes
\* executeComputerAction return the failure "Missing coordinates for
\* <action>" with no call at all (no desktop method, no scaling, no
\* screenshot); coordinates that are present never get that outcome, in
\* particular not those outside the viewport.
C15_MissingCoordinates ==
    (executor = "computer-tool" /\ epc # "ready" /\ params.action \in CoordinateActions) =>
        IF params.x = Undefined \/ params.y = Undefined
        THEN /\ epc = "returned"
             /\ outcome = [ success |-> FALSE, screenshot |-> FALSE,
                            error |-> MissingCoordinatesMessage(params.action) ]
             /\ calls = << >>
        ELSE outcome.error # MissingCoordinatesMessage(params.action)

C15_Witness ==
    /\ executor = "computer-tool"
    /\ epc = "returned"
    /\ params.action = "scroll"
    /\ params.x = Num(10) /\ params.y = Undefined
    /\ outcome.error = "Missing coordinates for scroll"
    /\ calls = << >>

\* C16: a drag whose path is missing or has fewer than two points fails
\* with "Drag requires at least 2 path points" and makes no call of any
\* kind.
C16_DragMinimumPoints ==
    (executor = "computer-tool" /\ epc # "ready" /\ params.action = "drag"
         /\ (~params.path.has \/ Len(params.path.v) \in {0, 1})) =>
        /\ epc = "returned"
        /\ outcome = [ success |-> FALSE, screenshot |-> FALSE,
                       error |-> "Drag requires at least 2 path points" ]
        /\ calls = << >>

C16_Witness ==
    /\ executor = "computer-tool"
    /\ epc = "returned"
    /\ params.action = "drag"
    /\ params.path.has /\ Len(params.path.v) = 1
    /\ outcome.error = "Drag requires at least 2 path points"
    /\ calls = << >>

ExpectedClick(button) ==
    CASE button = "right" -> "rightClick"
      [] button = "middle" -> "middleClick"
      [] OTHER -> "leftClick"

\* C17: for a click with both coordinates, executeComputerAction scales the
\* point at most once and calls at most one pointer method, once; when no
\* call throws, its calls are exactly the scaling of the point, the click
\* method of the button (leftClick for left or omitted, rightClick for
\* right, middleClick for middle) with the scaled point, and the screenshot,
\* and it returns success with a screenshot.
C17_ClickScaledOnce ==
    (executor = "computer-tool" /\ epc # "ready" /\ params.action = "click"
         /\ params.x # Undefined /\ params.y # Undefined) =>
        /\ epc = "returned"
        /\ Cardinality(CallsOf(calls, {"scaleToOriginalSpace"})) <= 1
        /\ Cardinality(CallsOf(calls, PointerMethods)) <= 1
        /\ \A i \in CallsOf(calls, PointerMethods) :
              calls[i] = Call(ExpectedClick(params.button),
                              scaleToOriginalSpace(<<params.x, params.y>>))
        /\ (outcome.success \/ Len(calls) = 3) =>
              /\ calls = << Call("scaleToOriginalSpace", <<params.x, params.y>>),
                            Call(ExpectedClick(params.button),
                                 scaleToOriginalSpace(<<params.x, params.y>>)),
                            Call("takeScreenshot", << >>) >>
        /\ outcome.success => outcome = SuccessOutcome

C17_Witness ==
    /\ executor = "computer-tool"
    /\ epc = "returned"
    /\ params.action = "click"
    /\ params.x = Num(10) /\ params.y = Num(15)
    /\ params.button = NoString
    /\ calls = << Call("scaleToOriginalSpace", <<Num(10), Num(15)>>),
                  Call("leftClick", <<Num(20), Num(30)>>),
                  Call("takeScreenshot", << >>) >>
    /\ outcome = SuccessOutcome

\* the model-space points of an action, as each executor reads them
ModelPoints(e, p) ==
    IF p.action = "drag"
    THEN IF e = "json" THEN <<JsonPoint(p.start), JsonPoint(p.end)>>
         ELSE <<p.path.v[1], p.path.v[Len(p.path.v)]>>
    ELSE IF e = "json" /\ p.action = "scroll" THEN <<JsonPoint(<<p.x, p.y>>)>>
    ELSE <<<<p.x, p.y>>>>

\* C18: every point that executeComputerAction or the JSON adapter's
\* executeAction passes to a desktop pointer method is the output of
\* scaleToOriginalSpace for the model-space point of the action, and that
\* scaling call was made before the pointer call.
C18_DeviceSpaceOnly ==
    executor \in {"computer-tool", "json"} =>
        \A i \in CallsOf(calls, PointerMethods) :
            /\ IF calls[i].method = "drag"
               THEN /\ calls[i].args = << scaleToOriginalSpace(ModelPoints(executor, params)[1]),
                                          scaleToOriginalSpace(ModelPoints(executor, params)[2]) >>
                    /\ i = 3
                    /\ calls[1] = Call("scaleToOriginalSpace", ModelPoints(executor, params)[1])
                    /\ calls[2] = Call("scaleToOriginalSpace", ModelPoints(executor, params)[2])
               ELSE /\ calls[i].args = scaleToOriginalSpace(ModelPoints(executor, params)[1])
                    /\ i = 2
                    /\ calls[1] = Call("scaleToOriginalSpace", ModelPoints(executor, params)[1])

C18_Witness ==
    /\ executor = "json"
    /\ epc = "returned"
    /\ params.action = "drag"
    /\ calls[3] = Call("drag", << <<Num(8), Num(14)>>, <<Num(40), Num(60)>> >>)

\* C19: no exception leaves executeComputerAction, whichever call throws;
\* what it returns is either a success (success, a screenshot, no error),
\* and then every call of the action up to the screenshot was made, or a
\* failure (no success, no screenshot, an error message).
C19_OutcomeNeverBoth ==
    executor = "computer-tool" =>
        /\ epc # "escaped"
        /\ epc = "returned" =>
              \/ /\ outcome = [success |-> TRUE, screenshot |-> TRUE, error |-> "null"]
                 /\ calls # << >>
                 /\ calls[Len(calls)].method = "takeScreenshot"
              \/ /\ ~outcome.success
                 /\ ~outcome.screenshot
                 /\ outcome.error \notin {"null", ""}

C19_Witness ==
    /\ executor = "computer-tool"
    /\ epc = "returned"
    /\ params.action = "move"
    /\ Len(calls) = 3
    /\ outcome = [success |-> FALSE, screenshot |-> FALSE, error |-> "desktop failure"]

\* C20 (as claimed): in the JSON adapter the execution of a proposed action
\* whose type is outside the vocabulary is never answered with an
\* ACTION_COMPLETED event.
C20_UnknownActionRejected ==
    [][(adapter = "json" /\ pc = "exec" /\ curAction = "unknown")
           => LastOf(out').type # "ACTION_COMPLETED"]_vars

(***************************************************************************)
(* Adapter selection                                                       *)
(***************************************************************************)
\* the model ids of SelectionModelIds that contain a native computer-use
\* model name
NativeModelIds == {"computer-use-preview", "Claude-Sonnet-4-Latest", "my-claude-3-7-sonnet"}

NativeConfig(c) ==
    /\ c.type \in {"openai", "anthropic"}
    /\ c.useNativeComputerUse
    /\ c.model \in NativeModelIds

\* C21: the adapter is a function of the provider configuration alone: a
\* session runs the native streamer only if the vendor is openai or
\* anthropic, useNativeComputerUse is set and the model id contains a native
\* model name, and in that case never starts the tool-calling loop; a
\* session of any other configuration never runs the native streamer; at
\* most one tool-calling run is started in a session.
C21_AdapterSelection ==
    adapter = "tool" =>
        /\ pc = "native" => NativeConfig(providerConfig) /\ modelCalls = 0
        /\ pc = "streaming" => ~NativeConfig(providerConfig) /\ modelCalls = 1
        /\ pc = "import" /\ providerConfig.type \in {"openai", "anthropic"}
              => NativeConfig(providerConfig)
        /\ modelCalls <= 1

\* a custom endpoint whose model id carries a native name runs the
\* tool-calling loop
C21_Witness ==
    /\ adapter = "tool"
    /\ pc = "streaming"
    /\ providerConfig.type = "custom"
    /\ providerConfig.useNativeComputerUse
    /\ providerConfig.model = "Claude-Sonnet-4-Latest"
    /\ instances = 2

(***************************************************************************)
(* History handed to the model                                             *)
(***************************************************************************)
\* the messages of a history that come from the request
Forwarded(msgs) == SelectSeq(msgs, LAMBDA m : m.from > 0)

\* C22: once AISDKComputerStreamer.stream has started a model call, the
\* history it handed over begins with a user turn built by the adapter
\* that carries a screenshot taken in this session, no other message of the
\* history is built by the adapter, and that screenshot was captured before
\* the call.
C22_ScreenshotTurnFirst ==
    (adapter = "tool" /\ modelCalls > 0) =>
        /\ screenshots >= 1
        /\ Len(history.seed) >= 1
        /\ history.seed[1].role = "user"
        /\ history.seed[1].from = 0
        /\ history.seed[1].image \in 1..screenshots
        /\ \A i \in 2..Len(history.seed) : history.seed[i].from > 0

\* a model call for a request that carries no message
C22_Witness ==
    /\ adapter = "tool"
    /\ pc = "streaming"
    /\ modelCalls = 1
    /\ inbound = << >>
    /\ Len(history.seed) = 1

\* C23: of the messages of the request, those an adapter (or the chat
\* client) passes on have role user or assistant, keep their role, and
\* stand in the order they had in the request.
C23_OnlyUserAndAssistantForwarded ==
    \A msgs \in {Forwarded(history.seed), apiMessages(inbound)} :
        /\ \A i \in 1..Len(msgs) :
              /\ msgs[i].role \in {"user", "assistant"}
              /\ msgs[i].from \in 1..Len(inbound)
              /\ msgs[i].role = inbound[msgs[i].from].role
        /\ \A i, j \in 1..Len(msgs) : i < j => msgs[i].from < msgs[j].from

\* the JSON adapter calls the model for a request with a system message
\* between a user and an assistant message
C23_Witness ==
    /\ adapter = "json"
    /\ pc = "model"
    /\ Len(inbound) = 3
    /\ inbound[1].role = "user" /\ inbound[2].role = "system" /\ inbound[3].role = "assistant"
    /\ Len(Forwarded(history.seed)) = 2

LastMessage(h) ==
    IF h.last # << >> THEN h.last[Len(h.last)] ELSE h.seed[Len(h.seed)]

\* C24: in the tool-calling loop the history of every model call ends with
\* a user turn carrying a screenshot, and holds, besides the messages it
\* was seeded with, no more than the last four messages of the run.
C24_FreshScreenshotAndPruning ==
    (adapter = "tool" /\ pc = "streaming" /\ sdk = "step") =>
        /\ LastMessage(history).role = "user"
        /\ LastMessage(history).image > 0
        /\ history.appended <= 4

(***************************************************************************)
(* Validation of the provider configuration                                *)
(***************************************************************************)
CredentialFree == {"custom", "ollama"}

FirstFailingRule(c) ==
    IF c.model = "" THEN "Model is required for provider"
    ELSE IF ~(c.type # "custom" \/ c.baseUrl # "")
         THEN "Base URL is required for custom providers"
    ELSE IF ~(c.type \in CredentialFree \/ c.apiKey # "")
         THEN "API key is required for provider"
    ELSE NULL

\* C25: validateProviderConfig returns null exactly when the model is
\* non-empty, the base URL is non-empty for a custom endpoint and the
\* credential is non-empty unless the vendor is custom or ollama; otherwise
\* it returns the message of the first rule that fails, in the order
\* model, base URL, credential.
C25_ValidationRules ==
    (executor \in Validators /\ epc = "returned") =>
        outcome.error = FirstFailingRule(providerConfig)

(***************************************************************************)
(* The loop of the JSON adapter, reply by reply                            *)
(***************************************************************************)
\* the steps of a JSON session, by the suspension points they join
JsonStep(from, to) == adapter = "json" /\ pc = from /\ pc' = to

\* C26: a reply that JSON.parse rejects yields one REASONING event with the
\* raw text and nothing else, takes no screenshot and invokes no executor,
\* pushes the reply and one corrective user prompt on the history, and
\* leaves the iteration counter alone; the model call that follows it
\* counts one iteration and is given that history.
C26_ParseFailureRecovered ==
    [][ /\ JsonStep("model", "loop") =>
              /\ out'.batch = <<Ev("REASONING", "raw")>>
              /\ out'.nAction = out.nAction
              /\ out'.nDone = out.nDone
              /\ out'.nError = out.nError
              /\ screenshots' = screenshots
              /\ curAction' = "none"
              /\ calls' = calls
              /\ HistorySize(history') = HistorySize(history) + 2
              /\ history'.last = << Message("assistant", "reply", 0, 0),
                                    Message("user", "corrective prompt", 0, 0) >>
              /\ iteration' = iteration
              /\ modelCalls' = modelCalls
        /\ JsonStep("loop", "model") =>
              /\ iteration' = iteration + 1
              /\ modelCalls' = modelCalls + 1
              /\ history' = history ]_vars

\* the model is called again after a reply that did not parse
C26_Witness ==
    /\ adapter = "json"
    /\ pc = "model"
    /\ iteration = 2
    /\ out.batch = <<Ev("REASONING", "raw")>>
    /\ history.last = CorrectiveTurn
    /\ screenshots = 1

\* C27: a parsed reply without an action, or with the action type "done",
\* yields one REASONING event and then DONE and leaves the loop, and no
\* event follows that DONE.
C27_JustificationThenDone ==
    (adapter = "json" /\ leftBy = "done") =>
        /\ ~out.afterDone
        /\ curAction = "none"
        /\ pc = "afterLoop" =>
              /\ Len(out.batch) = 2
              /\ out.batch[1].type = "REASONING"
              /\ out.batch[2] = DoneEv

\* C28: a reply with an action runs through ACTION, the execution,
\* ACTION_COMPLETED, one new screenshot and the push of the reply and of a
\* user turn with that screenshot, in this order and each exactly once;
\* whenever the model is being called, every action proposed so far has
\* had its screenshot taken.
C28_ActionCycleInOrder ==
    /\ [][ /\ JsonStep("model", "exec") =>
                  /\ out'.batch[Len(out'.batch)] = ActionEv
                  /\ out'.nAction = out.nAction + 1
                  /\ screenshots' = screenshots
                  /\ history' = history
           /\ JsonStep("exec", "shot") =>
                  /\ out'.batch = <<CompletedEv>>
                  /\ screenshots' = screenshots
                  /\ history' = history
           /\ JsonStep("shot", "loop") =>
                  /\ out' = out
                  /\ screenshots' = screenshots + 1
                  /\ HistorySize(history') = HistorySize(history) + 2
                  /\ history'.last = << Message("assistant", "reply", 0, 0),
                                        Message("user", "screenshot after action",
                                                screenshots', 0) >>
                  /\ modelCalls' = modelCalls
           /\ (adapter = "json" /\ modelCalls' # modelCalls) => pc = "loop" ]_vars
    /\ [](adapter = "json" /\ pc = "model" => screenshots = out.nAction + 1)

\* the model is called again after an executed action
C28_Witness ==
    /\ adapter = "json"
    /\ pc = "model"
    /\ iteration = 2
    /\ out.nAction = 1
    /\ LastEvent = CompletedEv
    /\ screenshots = 2
    /\ history.last = ObservationTurn(2)

(***************************************************************************)
(* Drag and keypress                                                       *)
(***************************************************************************)
\* C29: for a drag whose path has two or more points, executeComputerAction
\* scales no point other than the first and the last of the path and calls
\* drag at most once; when no call throws, its calls are exactly the
\* scaling of the first point, the scaling of the last point, one drag
\* from the scaled first to the scaled last point, and the screenshot.
C29_DragUsesEndpoints ==
    (executor = "computer-tool" /\ epc # "ready" /\ params.action = "drag"
         /\ params.path.has /\ Len(params.path.v) >= 2) =>
        LET first == params.path.v[1]
            last == params.path.v[Len(params.path.v)]
        IN /\ \A i \in CallsOf(calls, {"scaleToOriginalSpace"}) :
                 calls[i].args \in {first, last}
           /\ Cardinality(CallsOf(calls, {"scaleToOriginalSpace"})) <= 2
           /\ Cardinality(CallsOf(calls, {"drag"})) <= 1
           /\ DesktopCalls(calls) \subseteq CallsOf(calls, {"drag"})
           /\ (outcome.success \/ Len(calls) = 4) =>
                 calls = << Call("scaleToOriginalSpace", first),
                            Call("scaleToOriginalSpace", last),
                            Call("drag", <<scaleToOriginalSpace(first),
                                           scaleToOriginalSpace(last)>>),
                            Call("takeScreenshot", << >>) >>

\* a drag along three points has returned success
C29_Witness ==
    /\ executor = "computer-tool"
    /\ epc = "returned"
    /\ params.action = "drag"
    /\ params.path.has
    /\ Len(params.path.v) = 3
    /\ outcome = SuccessOutcome
    /\ Cardinality(CallsOf(calls, {"drag"})) = 1

\* the key tokens of a keypress, as either executor reads them
KeyTokens(e, a) ==
    IF a.keys.has /\ a.keys.v # << >> THEN a.keys.v
    ELSE IF e = "json" /\ ~a.keys.has /\ a.key \notin {NoString, ""} THEN <<a.key>>
    ELSE << >>

\* C30: for a keypress either executor calls press at most once; with no
\* key token it makes no press call; and when no call throws on a keypress
\* with key tokens it has made exactly one press call.
C30_KeypressNeedsKey ==
    (executor \in {"computer-tool", "json"} /\ epc # "ready" /\ params.action = "keypress") =>
        /\ Cardinality(CallsOf(calls, {"press"})) <= 1
        /\ KeyTokens(executor, params) = << >> => CallsOf(calls, {"press"}) = {}
        /\ (KeyTokens(executor, params) # << >> /\ epc = "returned"
               /\ (executor = "computer-tool" => outcome.success)) =>
              Cardinality(CallsOf(calls, {"press"})) = 1

(***************************************************************************)
(* Scroll                                                                  *)
(***************************************************************************)
\* C31: every scroll call an executor makes carries the direction "up" or
\* "down" and a positive amount, and a scroll whose direction and amount
\* are omitted is called with "down".
C31_ScrollDirectionAndAmount ==
    (executor \in {"computer-tool", "json"} /\ epc # "ready" /\ params.action = "scroll") =>
        \A i \in CallsOf(calls, {"scroll"}) :
            /\ calls[i].args[1] \in {"up", "down"}
            /\ calls[i].args[2][1] = "num"
            /\ calls[i].args[2][2] > 0
            /\ (params.scroll_direction = NoString /\ params.scroll_amount = Undefined
                   /\ params.scroll_y = Undefined) => calls[i].args[1] = "down"

(***************************************************************************)
(* Shell tool                                                              *)
(***************************************************************************)
\* C32: every command the shell tool runs is between 1 and 100000
\* characters long and runs with a whole-number timeout between 0 and
\* 300000 ms, which is 30000 ms when the caller gave none.
C32_TimeoutWindow ==
    (executor = "bash-tool" /\ epc = "returned") =>
        \A i \in CallsOf(calls, {"commands.run"}) :
            /\ calls[i].args[1] \in 1..MaxCommandLength
            /\ calls[i].args[2][1] = "num"
            /\ calls[i].args[2][2] \in 0..MaxTimeout
            /\ params.timeout = Undefined => calls[i].args[2] = Num(DefaultTimeout)

(***************************************************************************)
(* The chat route                                                          *)
(***************************************************************************)
Announcements(evs) == { i \in 1..Len(evs) : evs[i].type = "SANDBOX_CREATED" }

\* C33: for a request without a sandboxId the first events the consumer
\* receives are the one SANDBOX_CREATED event with the id and the view URL
\* of the new sandbox; no SANDBOX_CREATED is received after any other
\* event, and none at all for a request that names its sandbox.
C33_SandboxCreatedFirst ==
    [][ out' # out =>
          IF out = NoOutput /\ route.sandboxId = Absent
          THEN /\ out'.batch = <<SandboxCreatedEv(route.activeSandboxId, route.vncUrl)>>
               /\ route.activeSandboxId \notin {Absent, route.sandboxId}
               /\ route.vncUrl # Absent
          ELSE Announcements(out'.batch) = {} ]_vars

\* the adapter has yielded an event behind the announcement
C33_Witness ==
    /\ route.state = "streaming"
    /\ route.sandboxId = Absent
    /\ Len(out.recent) = 2
    /\ out.recent[1] = SandboxCreatedEv("sbx-2", "https://sbx-2/vnc")
    /\ out.recent[2].type = "REASONING"

(***************************************************************************)
(* The decoding of a response body in sendMessage: the body arrives in     *)
(* chunks, buffer collects them, buffer.split("\n\n") cuts the complete    *)
(* events off and parseSSEEvent turns each into an event.  Texts are       *)
(* strings, so that an event cut in two by a chunk boundary is a string    *)
(* cut in two.                                                             *)
(***************************************************************************)
\* how many events the body of one response holds
MaxWire == 2

WireEvent(type, content) == [type |-> type, content |-> content]

\* the events a body is made of: without and with a content; a content may
\* hold braces and blanks
WireEvents ==
    { WireEvent("done", ""), WireEvent("action", ""), WireEvent("reasoning", "a {b}") }

\* JSON.stringify of an event
JSONstringify(e) ==
    IF e.content = ""
    THEN "{\"type\":\"" \o e.type \o "\"}"
    ELSE "{\"type\":\"" \o e.type \o "\",\"content\":\"" \o e.content \o "\"}"

\* the text the server writes for one event: a data line and a blank line
encodeSSE(e) == "data: " \o JSONstringify(e) \o "\n\n"

RECURSIVE encodeAll(_)
encodeAll(evs) ==
    IF evs = << >> THEN "" ELSE encodeSSE(Head(evs)) \o encodeAll(Tail(evs))

\* what JSON.parse throws on
SyntaxError == WireEvent("SyntaxError", "")

\* what parseSSEEvent returns for a text it cannot use
null == WireEvent("null", "")

\* JSON.parse: the event whose JSON text this is, or a SyntaxError
JSONparse(text) ==
    IF \E e \in WireEvents : JSONstringify(e) = text
    THEN CHOOSE e \in WireEvents : JSONstringify(e) = text
    ELSE SyntaxError

Whitespace == {" ", "\n"}

CharAt(s, i) == SubSeq(s, i, i)

\* String.prototype.trim
trim(s) ==
    LET kept == {i \in 1..Len(s) : CharAt(s, i) \notin Whitespace}
    IN IF kept = {}
       THEN ""
       ELSE SubSeq(s, CHOOSE i \in kept : \A j \in kept : i <= j,
                      CHOOSE i \in kept : \A j \in kept : j <= i)

\* String.prototype.startsWith
startsWith(s, prefix) ==
    Len(s) >= Len(prefix) /\ SubSeq(s, 1, Len(prefix)) = prefix

\* the index of the first occurrence of sep in s, 0 when there is none
indexOf(s, sep) ==
    LET at == {i \in 1..(Len(s) - Len(sep) + 1) : SubSeq(s, i, i + Len(sep) - 1) = sep}
    IN IF at = {} THEN 0 ELSE CHOOSE i \in at : \A j \in at : i <= j

RECURSIVE split(_, _)
\* String.prototype.split with a separator
split(s, sep) ==
    LET i == indexOf(s, sep)
    IN IF i = 0
       THEN <<s>>
       ELSE <<SubSeq(s, 1, i - 1)>> \o split(SubSeq(s, i + Len(sep), Len(s)), sep)

\* data.match(/data: ({.*})/)[1]: from the first "data: {" to the last "}"
\* of the same line, "" when nothing matches
matchData(data) ==
    LET i == indexOf(data, "data: {")
    IN IF i = 0
       THEN ""
       ELSE LET rest == SubSeq(data, i + 6, Len(data))
                eol == indexOf(rest, "\n")
                line == IF eol = 0 THEN rest ELSE SubSeq(rest, 1, eol - 1)
                closing == {j \in 1..Len(line) : CharAt(line, j) = "}"}
            IN IF closing = {}
               THEN ""
               ELSE SubSeq(line, 1, CHOOSE j \in closing : \A k \in closing : k <= j)

\* try { ... JSON.parse(...) } catch { return null }
parsedOrNull(text) ==
    IF JSONparse(text) = SyntaxError THEN null ELSE JSONparse(text)

parseSSEEvent(data) ==
    IF trim(data) = ""
    THEN null
    ELSE IF startsWith(data, "data: ")
         THEN LET jsonStr == trim(SubSeq(data, 7, Len(data)))
              IN IF jsonStr = "" THEN null ELSE parsedOrNull(jsonStr)
         ELSE IF matchData(data) # ""
              THEN parsedOrNull(matchData(data))
              ELSE parsedOrNull(data)

RECURSIVE processEvents(_, _)
\* for (const event of events): blank texts and texts that do not parse are
\* skipped, every other event reaches the switch
processEvents(done, events) ==
    IF events = << >>
    THEN done
    ELSE LET event == Head(events)
             parsedEvent == parseSSEEvent(event)
         IN processEvents(IF trim(event) = "" \/ parsedEvent = null
                          THEN done
                          ELSE Append(done, parsedEvent),
                          Tail(events))

\* the incomplete text thrown away
DropRemainder(events) == ""

\* events.pop() || ""
Remainder(events) == events[Len(events)]

Bodies == UNION {[1..n -> WireEvents] : n \in 0..MaxWire}

InitDecoder ==
    /\ adapter = "none"
    /\ pc = "read"
    /\ providerConfig = NoConfig
    /\ variant = "none"
    /\ inbound = << >>
    /\ InitSession
    /\ IdleExecutor
    /\ route = NoRoute
    /\ IdleClient
    /\ IdleStore
    /\ sentEvents \in Bodies
    /\ body = encodeAll(sentEvents)
    /\ buffer = ""
    /\ processed = << >>

\* reader.read() resolves with a chunk: any non-empty prefix of what is left
ReadChunk ==
    /\ pc = "read"
    /\ \E n \in 1..Len(body) :
         LET events == split(buffer \o SubSeq(body, 1, n), "\n\n")
         IN /\ body' = SubSeq(body, n + 1, Len(body))
            /\ buffer' = Remainder(events)
            /\ processed' = processEvents(processed, SubSeq(events, 1, Len(events) - 1))
    /\ UNCHANGED <<pc, sentEvents>>
    /\ UNCHANGED <<sessionVars, jsonVars, toolVars, execVars, histVars, route>>
    /\ UNCHANGED <<clientVars, storeVars>>

\* reader.read() resolves with done: a DONE left in buffer is processed
ReadDone ==
    /\ pc = "read"
    /\ body = ""
    /\ pc' = "end"
    /\ processed' = IF trim(buffer) # "" /\ parseSSEEvent(buffer).type = "done"
                    THEN Append(processed, parseSSEEvent(buffer))
                    ELSE processed
    /\ UNCHANGED <<body, buffer, sentEvents>>
    /\ UNCHANGED <<sessionVars, jsonVars, toolVars, execVars, histVars, route>>
    /\ UNCHANGED <<clientVars, storeVars>>

DecodeNext == ReadChunk \/ ReadDone

DecodeSpec == InitDecoder /\ [][DecodeNext]_vars

(***************************************************************************)
(* The provider store (lib/providers/store.ts): the stored configurations  *)
(* and the active provider id, both in localStorage.  A configuration is   *)
(* kept as its id; ids are 1, 2, ... in the order generateId gave them     *)
(* out, and NullId stands for null (no entry under ACTIVE_PROVIDER_KEY).   *)
(***************************************************************************)
\* how many ids generateId gives out
MaxGenerated == 4
\* how many configurations fit under STORAGE_KEY before setItem throws
MaxStored == 3

NullId == 0

StoredIds == {providers[i] : i \in 1..Len(providers)}

\* providers.filter(p => p.id !== id)
WithoutId(list, id) == SelectSeq(list, LAMBDA p : p # id)

\* saveProviders: setItem, whose exception (the quota) is caught and logged
saveProviders(list) ==
    providers' = IF Len(list) <= MaxStored THEN list ELSE providers

\* the active id left as it is
KeepActive(activeId, id) == activeId

\* if (activeId === id) setActiveProviderId(null)
ActiveAfterDelete(activeId, id) == IF activeId = id THEN NullId ELSE activeId

\* addProvider: a fresh id, push, saveProviders; returns the new config
addProvider ==
    /\ pc = "store"
    /\ generated < MaxGenerated
    /\ generated' = generated + 1
    /\ saveProviders(Append(providers, generated + 1))
    /\ returned' = [call |-> "addProvider", value |-> generated + 1]
    /\ UNCHANGED activeProviderId
    /\ UNCHANGED <<pc, sessionVars, jsonVars, toolVars, execVars, histVars, route>>
    /\ UNCHANGED <<clientVars, decodeVars>>

\* deleteProvider(id)
deleteProvider(id) ==
    /\ pc = "store"
    /\ LET filtered == WithoutId(providers, id)
       IN IF Len(filtered) = Len(providers)
          THEN /\ returned' = [call |-> "deleteProvider", value |-> 0]
               /\ UNCHANGED <<providers, activeProviderId>>
          ELSE /\ saveProviders(filtered)
               /\ activeProviderId' = ActiveAfterDelete(activeProviderId, id)
               /\ returned' = [call |-> "deleteProvider", value |-> 1]
    /\ UNCHANGED generated
    /\ UNCHANGED <<pc, sessionVars, jsonVars, toolVars, execVars, histVars, route>>
    /\ UNCHANGED <<clientVars, decodeVars>>

\* setActiveProviderId(id): setItem for an id, removeItem for null
setActiveProviderId(id) ==
    /\ pc = "store"
    /\ activeProviderId' = id
    /\ returned' = [call |-> "setActiveProviderId", value |-> id]
    /\ UNCHANGED <<providers, generated>>
    /\ UNCHANGED <<pc, sessionVars, jsonVars, toolVars, execVars, histVars, route>>
    /\ UNCHANGED <<clientVars, decodeVars>>

InitStore ==
    /\ adapter = "none"
    /\ pc = "store"
    /\ providerConfig = NoConfig
    /\ variant = "none"
    /\ inbound = << >>
    /\ InitSession
    /\ IdleExecutor
    /\ route = NoRoute
    /\ IdleFront

\* the calls of the claim: deleteProvider with any id, setActiveProviderId
\* with the id of a stored provider or null
StoreNext ==
    \/ addProvider
    \/ \E id \in 1..MaxGenerated : deleteProvider(id)
    \/ \E id \in StoredIds \cup {NullId} : setActiveProviderId(id)

StoreSpec == InitStore /\ [][StoreNext]_vars

\* every stream the adapters end holds a DONE or an ERROR event: what
\* ReadEvent and ReaderDone take for granted about a response stream
AdapterStreamsTerminate ==
    (pc = "end" /\ route.state # "failed") => out.nDone + out.nError > 0

StreamEnded == \E r \in 1..Len(requests) : requests[r].state = "ended"

Consuming == {r \in 1..Len(requests) : InFlight(r) /\ ~requests[r].aborted}

\* C35: in the chat client, under any interleaving of sendMessage,
\* stopGeneration and the steps of earlier requests, at most one request is
\* consuming a response stream and isLoading is true whenever one is.
C35_OneRequestAtATime ==
    /\ Cardinality(Consuming) <= 1
    /\ Consuming # {} => isLoading

\* an ACTION_COMPLETED event is processed
Completion == \E r \in 1..Len(requests) : ReadEvent(r, "ACTION_COMPLETED")

\* an ACTION event is processed
Proposal == \E r \in 1..Len(requests) : ReadEvent(r, "ACTION")

ActionMessages(msgs) == {i \in 1..Len(msgs) : msgs[i].role = "action"}

PendingActions(msgs) == {i \in ActionMessages(msgs) : msgs[i].status = "pending"}

\* i is the most recent action message of msgs
MostRecentAction(msgs, i) ==
    i \in ActionMessages(msgs) /\ \A j \in ActionMessages(msgs) : j <= i

\* every ACTION received so far was followed by its ACTION_COMPLETED before
\* the next ACTION: only the most recent action message can be pending
Paired(msgs) == \A i \in PendingActions(msgs) : MostRecentAction(msgs, i)

\* C36: processing an ACTION_COMPLETED event sets the status of the most
\* recent action message to "completed" and changes nothing else: every
\* other message, the order and the length of the list stay, and a list
\* without an action message is unchanged.  Hence, while every ACTION is
\* followed by its ACTION_COMPLETED before the next ACTION, no action
\* message is pending after an ACTION_COMPLETED.
C36_CompletionFrame ==
    /\ [][Completion =>
            /\ Len(messages') = Len(messages)
            /\ \A i \in 1..Len(messages) :
                 IF MostRecentAction(messages, i)
                 THEN messages'[i] = [messages[i] EXCEPT !.status = "completed"]
                 ELSE messages'[i] = messages[i]]_vars
    /\ [][(Proposal /\ PendingActions(messages) = {}) => Paired(messages')]_vars
    /\ [][(Completion /\ Paired(messages)) => PendingActions(messages') = {}]_vars

\* an ACTION_COMPLETED has completed the action of this task and left the
\* pending action of the earlier task, and every other message, alone
C36_Witness ==
    /\ Len(messages) = 7
    /\ SubSeq(messages, 1, 4) = <<userMessage, TaskStarted, actionMessage, errorMessage>>
    /\ messages[7] = [actionMessage EXCEPT !.status = "completed"]

IsPrefix(s, t) == Len(s) <= Len(t) /\ SubSeq(t, 1, Len(s)) = s

\* C37: however the text of a response body is cut into chunks, the
\* client processes the events the body was made of, in their order: at
\* every moment the events processed are the first events of the body, and
\* once the reader has reported done they are all of them.
C37_ChunkingIndependence ==
    /\ IsPrefix(processed, sentEvents)
    /\ (pc = "end" /\ sentEvents # << >>) => processed = sentEvents

\* a chunk boundary fell inside the second event of a body: the first
\* event has been processed and the start of the second waits in buffer
C37_Witness ==
    /\ Len(sentEvents) = 2
    /\ processed = <<sentEvents[1]>>
    /\ buffer # ""
    /\ body # ""

\* C38: in the provider store the active id is null or the id of a stored
\* provider after any sequence of addProvider, deleteProvider and
\* setActiveProviderId (with a stored id or null).  deleteProvider of a
\* stored id returns true, removes that provider and no other, and clears
\* the active id when it is the id deleted; deleteProvider of an id that is
\* not stored returns false and changes neither the list nor the active id.
C38_ActiveIdIsStored ==
    /\ [](activeProviderId = NullId \/ activeProviderId \in StoredIds)
    /\ [][\A id \in 1..MaxGenerated : deleteProvider(id) =>
            IF id \in StoredIds
            THEN /\ returned'.value = 1
                 /\ Len(providers') = Len(providers) - 1
                 /\ {providers'[i] : i \in 1..Len(providers')} = StoredIds \ {id}
                 /\ activeProviderId' = (IF activeProviderId = id
                                         THEN NullId
                                         ELSE activeProviderId)
            ELSE /\ returned'.value = 0
                 /\ providers' = providers
                 /\ activeProviderId' = activeProviderId]_vars

\* the active provider has been deleted: the call returned true, the active
\* id is null and another provider is still stored
C38_Witness ==
    /\ returned = [call |-> "deleteProvider", value |-> 1]
    /\ activeProviderId = NullId
    /\ providers # << >>
    /\ generated >= 2

\* the messages of a history known to carry a screenshot of this session
Screenshots(h) ==
    {i \in 1..Len(h.seed) : h.seed[i].image \in 1..screenshots}
        \cup {Len(h.seed) + i : i \in {j \in 1..Len(h.last) : h.last[j].image \in 1..screenshots}}

\* C39: in the JSON adapter the history sent with every model call, the
\* first included, holds at least one screenshot captured in this session,
\* whether the request's messages end with a user turn, end with an
\* assistant turn, or are empty.
C39_EveryCallSeesScreen ==
    (adapter = "json" /\ pc = "model") => Screenshots(history) # {}
====
